---- MODULE Spec2Model ----
(***************************************************************************)
(* A model of the resolution engine of src/language/onchip_prolog.c: the   *)
(* term heap, the trail, unify, copy_term, builtin_call, the recursive     *)
(* solve (as an explicit stack of frames) and the driver main.             *)
(*                                                                         *)
(* A Term* of the C code is an index into the sequence heap (0 is NULL).   *)
(* Every malloc of a Term appends one node, so node identity is pointer    *)
(* identity.  All nodes have the same record shape; the fields that the C  *)
(* union does not hold for a kind keep their default.                      *)
(***************************************************************************)
EXTENDS Integers, Sequences, FiniteSets, TLC

VARIABLES
    src,              \* main: the source being loaded, a sequence of items
    pos,              \* main: index of the next item parse_one reads
    pc,               \* main: "parse", "solve" or "done"
    heap,             \* every Term node allocated so far
    g_trail,          \* g_trail.v[0 .. g_trail.n-1]
    g_kb,             \* g_kb.c[0 .. g_kb.n-1]
    last_query,       \* main: last_query.ptrs
    qvars,            \* main: qvars.v
    g_solution_count,
    stack,            \* the activations of solve, innermost last
    out,              \* stdout: one element per printf call
    calls,            \* unit harness: number of unify calls made so far
    marks,            \* unit harness: the marks taken, with the state at each
    last              \* unit harness: the last operation and the state before it

\* The variables only the unit harness writes.
hvars == <<calls, marks, last>>

vars == <<src, pos, pc, heap, g_trail, g_kb, last_query, qvars,
          g_solution_count, stack, out, hvars>>

NULL == 0

TM_VAR == "TM_VAR"
TM_NUM == "TM_NUM"
TM_STRUC == "TM_STRUC"

(***************************************************************************)
(* Term constructors                                                       *)
(***************************************************************************)
\* The leading character that makes a variable name anonymous.
IsAnonName(name) ==
    name \in {"_", "_G", "_X", "_Y"}

mk_var_node(name) ==
    [k |-> TM_VAR, ref |-> NULL, name |-> name,
     anonymous |-> IF IsAnonName(name) THEN 1 ELSE 0,
     num |-> 0, arity |-> 0, args |-> <<>>]

mk_num_node(v) ==
    [k |-> TM_NUM, ref |-> NULL, name |-> "", anonymous |-> 0,
     num |-> v, arity |-> 0, args |-> <<>>]

\* mk_atom followed by mk_struct's args_push(NULL) x arity.
mk_struct_node(name, arity) ==
    [k |-> TM_STRUC, ref |-> NULL, name |-> name, anonymous |-> 0,
     num |-> 0, arity |-> arity, args |-> [i \in 1..arity |-> NULL]]

\* Allocation: the new node's address is the next index.
Alloc(h, node) == [h |-> Append(h, node), t |-> Len(h) + 1]

\* Statement order: e, with v computed first.  TLC computes a LET definition
\* and an operator's argument only when its value is asked for, so a run of
\* updates that hand the heap on to one another is otherwise computed in a
\* single nested descent, as deep as the run is long.
Strict(v, e) == IF v = v THEN e ELSE e

(***************************************************************************)
(* The parser's input.  The lexer is not modelled: a source is the         *)
(* sequence of its clauses and queries, each term a tree of tokens         *)
(* (TK_VAR, TK_NUM, TK_ATOM with its argument list; a TK_QUOTED atom is an *)
(* atom without arguments).                                                *)
(***************************************************************************)
V(name) == [t |-> "var", name |-> name, num |-> 0, args |-> <<>>]
N(v) == [t |-> "num", name |-> "", num |-> v, args |-> <<>>]
A(name) == [t |-> "atom", name |-> name, num |-> 0, args |-> <<>>]
S1(name, a) == [t |-> "atom", name |-> name, num |-> 0, args |-> <<a>>]
S2(name, a, b) == [t |-> "atom", name |-> name, num |-> 0, args |-> <<a, b>>]

Fact(head) == [q |-> FALSE, head |-> head, body |-> <<>>]
Rule(head, body) == [q |-> FALSE, head |-> head, body |-> body]
Query(goals) == [q |-> TRUE, head |-> A("?-"), body |-> goals]

\* VarEnv: names[i] is the name of vars[i].
ve_init == [names |-> <<>>, vars |-> <<>>]

\* ve_get giving every occurrence of an anonymous name a node of its own.
ve_get_anon_fresh(h, E, name) ==
    IF ~IsAnonName(name) /\ \E i \in 1..Len(E.names) : E.names[i] = name
    THEN LET i == CHOOSE j \in 1..Len(E.names) :
                      /\ E.names[j] = name
                      /\ \A l \in 1..(j - 1) : E.names[l] # name
         IN  [h |-> h, V |-> E, t |-> E.vars[i]]
    ELSE LET r == Alloc(h, mk_var_node(name))
         IN  [h |-> r.h,
              V |-> [names |-> Append(E.names, name), vars |-> Append(E.vars, r.t)],
              t |-> r.t]

\* ve_get: the node of `name` in this clause or query, allocated on first use.
ve_get(h, E, name) ==
    IF \E i \in 1..Len(E.names) : E.names[i] = name
    THEN LET i == CHOOSE j \in 1..Len(E.names) :
                      /\ E.names[j] = name
                      /\ \A l \in 1..(j - 1) : E.names[l] # name
         IN  [h |-> h, V |-> E, t |-> E.vars[i]]
    ELSE LET r == Alloc(h, mk_var_node(name))
         IN  [h |-> r.h,
              V |-> [names |-> Append(E.names, name), vars |-> Append(E.vars, r.t)],
              t |-> r.t]

RECURSIVE parse_term(_, _, _)
RECURSIVE parse_args(_, _, _, _, _)

\* The do-while of parse_term that fills the TermVec args, left to right.
parse_args(h, E, asts, i, acc) ==
    IF i > Len(asts) THEN [h |-> h, V |-> E, ts |-> acc]
    ELSE LET r == parse_term(h, E, asts[i])
         IN  Strict(r, parse_args(r.h, r.V, asts, i + 1, Append(acc, r.t)))

parse_term(h, E, ast) ==
    IF ast.t = "var" THEN ve_get(h, E, ast.name)
    ELSE IF ast.t = "num" THEN
        LET r == Alloc(h, mk_num_node(ast.num))
        IN  [h |-> r.h, V |-> E, t |-> r.t]
    ELSE
        \* the arguments are parsed before mk_struct allocates the node
        LET as == parse_args(h, E, ast.args, 1, <<>>)
            r  == Alloc(as.h, [mk_struct_node(ast.name, Len(as.ts))
                                 EXCEPT !.args = as.ts])
        IN  [h |-> r.h, V |-> as.V, t |-> r.t]

\* parse_goal_list
parse_goal_list(h, E, asts) == parse_args(h, E, asts, 1, <<>>)

\* parse_one on a clause: one VarEnv for the head and the body.
parse_clause(h, item) ==
    LET hd == parse_term(h, ve_init, item.head)
        bd == parse_goal_list(hd.h, hd.V, item.body)
    IN  [h |-> bd.h, cl |-> [head |-> hd.t, body |-> bd.ts]]

\* parse_one on a query: a VarEnv of its own.
parse_query(h, item) ==
    LET gl == parse_goal_list(h, ve_init, item.body)
    IN  [h |-> gl.h, goals |-> gl.ts]

(***************************************************************************)
(* Trail                                                                   *)
(***************************************************************************)
trail_push(tr, var) == Append(tr, var)

trail_mark(tr) == Len(tr)

\* trail_unwind that forgets v->u.v.ref = NULL.
trail_unwind_keep(h, tr, mark) ==
    IF Len(tr) > mark THEN [h |-> h, tr |-> SubSeq(tr, 1, mark)]
    ELSE [h |-> h, tr |-> tr]

RECURSIVE trail_unwind(_, _, _)
\* trail_unwind whose loop test is g_trail.n > mark + 1.
trail_unwind_short(h, tr, mark) ==
    IF Len(tr) > mark + 1
    THEN LET v == tr[Len(tr)]
         IN  trail_unwind([h EXCEPT ![v].ref = NULL],
                          SubSeq(tr, 1, Len(tr) - 1), mark)
    ELSE [h |-> h, tr |-> tr]

\* The trail cut down to its first k entries, the variables taken off unbound.
UnwoundTo(h, tr, k) ==
    LET off == {tr[i] : i \in (k + 1)..Len(tr)}
    IN  [h |-> [n \in 1..Len(h) |->
                   IF n \in off THEN [h[n] EXCEPT !.ref = NULL] ELSE h[n]],
         tr |-> SubSeq(tr, 1, k)]

\* trail_unwind whose loop test is g_trail.n != mark, ending at an empty trail.
trail_unwind_ne(h, tr, mark) ==
    IF mark <= Len(tr) THEN UnwoundTo(h, tr, mark) ELSE UnwoundTo(h, tr, 0)

\* trail_unwind as a do-while: one entry is popped before the first test.
trail_unwind_dowhile(h, tr, mark) ==
    IF Len(tr) = 0 THEN [h |-> h, tr |-> tr]
    ELSE IF mark < Len(tr) - 1 THEN UnwoundTo(h, tr, mark)
    ELSE UnwoundTo(h, tr, Len(tr) - 1)

\* while (g_trail.n > mark) { v = g_trail.v[--g_trail.n]; v->u.v.ref = NULL; }
trail_unwind(h, tr, mark) ==
    IF Len(tr) > mark
    THEN LET v == tr[Len(tr)]
         IN  trail_unwind([h EXCEPT ![v].ref = NULL],
                          SubSeq(tr, 1, Len(tr) - 1), mark)
    ELSE [h |-> h, tr |-> tr]

(***************************************************************************)
(* deref and unify                                                         *)
(***************************************************************************)
RECURSIVE deref(_, _)
\* deref following one binding link only.
deref_once(h, t) ==
    IF h[t].k = TM_VAR /\ h[t].ref # NULL THEN h[t].ref ELSE t

\* while (t->k == TM_VAR && t->u.v.ref) t = t->u.v.ref;
deref(h, t) ==
    IF h[t].k = TM_VAR /\ h[t].ref # NULL THEN deref(h, h[t].ref) ELSE t

\* The binding step of unify: a->u.v.ref = b; trail_push(a).
\* The binding step without the call of trail_push.
bind_nopush(h, tr, a, b) ==
    [ok |-> TRUE, h |-> [h EXCEPT ![a].ref = b], tr |-> tr]

bind(h, tr, a, b) ==
    [ok |-> TRUE, h |-> [h EXCEPT ![a].ref = b], tr |-> trail_push(tr, a)]

RECURSIVE unify(_, _, _, _)
RECURSIVE unify_args(_, _, _, _, _)

RECURSIVE unify_args_undo(_, _, _, _, _)

\* The argument loop undoing, on a failure, what the earlier arguments bound.
unify_args_undo(h, tr, a, b, i) ==
    IF i > h[a].arity THEN [ok |-> TRUE, h |-> h, tr |-> tr]
    ELSE LET r == unify(h, tr, h[a].args[i], h[b].args[i])
             rest == unify_args_undo(r.h, r.tr, a, b, i + 1)
         IN  IF r.ok /\ rest.ok THEN rest
             ELSE [ok |-> FALSE, h |-> h, tr |-> tr]

\* for (i = 0; i < arity; i++) if (!unify(a.args[i], b.args[i])) return 0;
unify_args(h, tr, a, b, i) ==
    IF i > h[a].arity THEN [ok |-> TRUE, h |-> h, tr |-> tr]
    ELSE LET r == unify(h, tr, h[a].args[i], h[b].args[i])
         IN  IF r.ok THEN unify_args(r.h, r.tr, a, b, i + 1)
             ELSE r

\* unify without the strcmp of the two names.
unify_anyname(h, tr, a0, b0) ==
    LET a == deref(h, a0)
        b == deref(h, b0)
    IN  IF a = b THEN [ok |-> TRUE, h |-> h, tr |-> tr]
        ELSE IF h[a].k = TM_VAR THEN bind(h, tr, a, b)
        ELSE IF h[b].k = TM_VAR THEN bind(h, tr, b, a)
        ELSE IF h[a].k = TM_NUM /\ h[b].k = TM_NUM
            THEN [ok |-> h[a].num = h[b].num, h |-> h, tr |-> tr]
        ELSE IF h[a].k = TM_STRUC /\ h[b].k = TM_STRUC
            THEN IF h[a].arity # h[b].arity
                 THEN [ok |-> FALSE, h |-> h, tr |-> tr]
                 ELSE unify_args(h, tr, a, b, 1)
        ELSE [ok |-> FALSE, h |-> h, tr |-> tr]

\* unify without the comparison of the two arities.
unify_anyarity(h, tr, a0, b0) ==
    LET a == deref(h, a0)
        b == deref(h, b0)
    IN  IF a = b THEN [ok |-> TRUE, h |-> h, tr |-> tr]
        ELSE IF h[a].k = TM_VAR THEN bind(h, tr, a, b)
        ELSE IF h[b].k = TM_VAR THEN bind(h, tr, b, a)
        ELSE IF h[a].k = TM_NUM /\ h[b].k = TM_NUM
            THEN [ok |-> h[a].num = h[b].num, h |-> h, tr |-> tr]
        ELSE IF h[a].k = TM_STRUC /\ h[b].k = TM_STRUC
            THEN IF h[a].name # h[b].name THEN [ok |-> FALSE, h |-> h, tr |-> tr]
                 ELSE IF h[a].arity <= h[b].arity THEN unify_args(h, tr, a, b, 1)
                 ELSE unify_args(h, tr, b, a, 1)
        ELSE [ok |-> FALSE, h |-> h, tr |-> tr]

\* unify taking any two numbers as equal.
unify_anynum(h, tr, a0, b0) ==
    LET a == deref(h, a0)
        b == deref(h, b0)
    IN  IF a = b THEN [ok |-> TRUE, h |-> h, tr |-> tr]
        ELSE IF h[a].k = TM_VAR THEN bind(h, tr, a, b)
        ELSE IF h[b].k = TM_VAR THEN bind(h, tr, b, a)
        ELSE IF h[a].k = TM_NUM /\ h[b].k = TM_NUM
            THEN [ok |-> TRUE, h |-> h, tr |-> tr]
        ELSE IF h[a].k = TM_STRUC /\ h[b].k = TM_STRUC
            THEN IF h[a].name # h[b].name THEN [ok |-> FALSE, h |-> h, tr |-> tr]
                 ELSE IF h[a].arity # h[b].arity
                     THEN [ok |-> FALSE, h |-> h, tr |-> tr]
                 ELSE unify_args(h, tr, a, b, 1)
        ELSE [ok |-> FALSE, h |-> h, tr |-> tr]

\* unify returning 0 where the two dereferenced pointers are equal.
unify_noident(h, tr, a0, b0) ==
    LET a == deref(h, a0)
        b == deref(h, b0)
    IN  IF a = b THEN [ok |-> FALSE, h |-> h, tr |-> tr]
        ELSE IF h[a].k = TM_VAR THEN bind(h, tr, a, b)
        ELSE IF h[b].k = TM_VAR THEN bind(h, tr, b, a)
        ELSE IF h[a].k = TM_NUM /\ h[b].k = TM_NUM
            THEN [ok |-> h[a].num = h[b].num, h |-> h, tr |-> tr]
        ELSE IF h[a].k = TM_STRUC /\ h[b].k = TM_STRUC
            THEN IF h[a].name # h[b].name THEN [ok |-> FALSE, h |-> h, tr |-> tr]
                 ELSE IF h[a].arity # h[b].arity
                     THEN [ok |-> FALSE, h |-> h, tr |-> tr]
                 ELSE unify_args(h, tr, a, b, 1)
        ELSE [ok |-> FALSE, h |-> h, tr |-> tr]

\* unify without the two deref calls at its entry.
unify_noderef(h, tr, a, b) ==
    IF a = b THEN [ok |-> TRUE, h |-> h, tr |-> tr]
    ELSE IF h[a].k = TM_VAR THEN bind(h, tr, a, b)
    ELSE IF h[b].k = TM_VAR THEN bind(h, tr, b, a)
    ELSE IF h[a].k = TM_NUM /\ h[b].k = TM_NUM
        THEN [ok |-> h[a].num = h[b].num, h |-> h, tr |-> tr]
    ELSE IF h[a].k = TM_STRUC /\ h[b].k = TM_STRUC
        THEN IF h[a].name # h[b].name THEN [ok |-> FALSE, h |-> h, tr |-> tr]
             ELSE IF h[a].arity # h[b].arity
                 THEN [ok |-> FALSE, h |-> h, tr |-> tr]
             ELSE unify_args(h, tr, a, b, 1)
    ELSE [ok |-> FALSE, h |-> h, tr |-> tr]

RECURSIVE occurs_in(_, _, _)
\* The variable v is the term t0 or is inside it.
occurs_in(h, v, t0) ==
    LET t == deref(h, t0)
    IN  \/ t = v
        \/ /\ h[t].k = TM_STRUC
           /\ \E i \in 1..h[t].arity : occurs_in(h, v, h[t].args[i])

\* unify with an occurs check before each binding.
unify_occurs(h, tr, a0, b0) ==
    LET a == deref(h, a0)
        b == deref(h, b0)
    IN  IF a = b THEN [ok |-> TRUE, h |-> h, tr |-> tr]
        ELSE IF h[a].k = TM_VAR
            THEN IF occurs_in(h, a, b) THEN [ok |-> FALSE, h |-> h, tr |-> tr]
                 ELSE bind(h, tr, a, b)
        ELSE IF h[b].k = TM_VAR
            THEN IF occurs_in(h, b, a) THEN [ok |-> FALSE, h |-> h, tr |-> tr]
                 ELSE bind(h, tr, b, a)
        ELSE IF h[a].k = TM_NUM /\ h[b].k = TM_NUM
            THEN [ok |-> h[a].num = h[b].num, h |-> h, tr |-> tr]
        ELSE IF h[a].k = TM_STRUC /\ h[b].k = TM_STRUC
            THEN IF h[a].name # h[b].name THEN [ok |-> FALSE, h |-> h, tr |-> tr]
                 ELSE IF h[a].arity # h[b].arity
                     THEN [ok |-> FALSE, h |-> h, tr |-> tr]
                 ELSE unify_args(h, tr, a, b, 1)
        ELSE [ok |-> FALSE, h |-> h, tr |-> tr]

\* unify without the test a == b of the two dereferenced pointers.
unify_nosame(h, tr, a0, b0) ==
    LET a == deref(h, a0)
        b == deref(h, b0)
    IN  IF h[a].k = TM_VAR THEN bind(h, tr, a, b)
        ELSE IF h[b].k = TM_VAR THEN bind(h, tr, b, a)
        ELSE IF h[a].k = TM_NUM /\ h[b].k = TM_NUM
            THEN [ok |-> h[a].num = h[b].num, h |-> h, tr |-> tr]
        ELSE IF h[a].k = TM_STRUC /\ h[b].k = TM_STRUC
            THEN IF h[a].name # h[b].name THEN [ok |-> FALSE, h |-> h, tr |-> tr]
                 ELSE IF h[a].arity # h[b].arity
                     THEN [ok |-> FALSE, h |-> h, tr |-> tr]
                 ELSE unify_args(h, tr, a, b, 1)
        ELSE [ok |-> FALSE, h |-> h, tr |-> tr]

unify(h, tr, a0, b0) ==
    LET a == deref(h, a0)
        b == deref(h, b0)
    IN  IF a = b THEN [ok |-> TRUE, h |-> h, tr |-> tr]
        ELSE IF h[a].k = TM_VAR THEN bind(h, tr, a, b)
        ELSE IF h[b].k = TM_VAR THEN bind(h, tr, b, a)
        ELSE IF h[a].k = TM_NUM /\ h[b].k = TM_NUM
            THEN [ok |-> h[a].num = h[b].num, h |-> h, tr |-> tr]
        ELSE IF h[a].k = TM_STRUC /\ h[b].k = TM_STRUC
            THEN IF h[a].name # h[b].name THEN [ok |-> FALSE, h |-> h, tr |-> tr]
                 ELSE IF h[a].arity # h[b].arity
                     THEN [ok |-> FALSE, h |-> h, tr |-> tr]
                 ELSE unify_args(h, tr, a, b, 1)
        ELSE [ok |-> FALSE, h |-> h, tr |-> tr]

(***************************************************************************)
(* copy_term                                                               *)
(***************************************************************************)
VMapEmpty == [from |-> <<>>, to |-> <<>>]

\* The name map_get gives the fresh variable.
map_name(h, orig) ==
    IF h[orig].k = TM_VAR THEN h[orig].name ELSE "_"

\* map_get that hands out the template variable itself.
map_get_shared(h, M, orig) ==
    IF \E i \in 1..Len(M.from) : M.from[i] = orig
    THEN [h |-> h, M |-> M, t |-> orig]
    ELSE [h |-> h,
          M |-> [from |-> Append(M.from, orig), to |-> Append(M.to, orig)],
          t |-> orig]

\* map_get without the lookup: a fresh variable for every occurrence.
map_get_always_fresh(h, M, orig) ==
    LET r == Alloc(h, mk_var_node(map_name(h, orig)))
    IN  [h |-> r.h,
         M |-> [from |-> Append(M.from, orig), to |-> Append(M.to, r.t)],
         t |-> r.t]

map_get(h, M, orig) ==
    IF \E i \in 1..Len(M.from) : M.from[i] = orig
    THEN LET i == CHOOSE j \in 1..Len(M.from) :
                      /\ M.from[j] = orig
                      /\ \A l \in 1..(j - 1) : M.from[l] # orig
         IN  [h |-> h, M |-> M, t |-> M.to[i]]
    ELSE LET r == Alloc(h, mk_var_node(map_name(h, orig)))
         IN  [h |-> r.h,
              M |-> [from |-> Append(M.from, orig), to |-> Append(M.to, r.t)],
              t |-> r.t]

RECURSIVE copy_term(_, _, _)
RECURSIVE copy_args(_, _, _, _, _)

\* for (i = 0; i < arity; i++) c->args[i] = copy_term(t->args[i], M);
copy_args(h, M, t, c, i) ==
    IF i > h[t].arity THEN [h |-> h, M |-> M, t |-> c]
    ELSE LET r == copy_term(h, M, h[t].args[i])
         IN  copy_args([r.h EXCEPT ![c].args[i] = r.t], r.M, t, c, i + 1)

copy_term(h, M, t) ==
    IF h[t].k = TM_VAR THEN map_get(h, M, t)
    ELSE IF h[t].k = TM_NUM THEN
        LET r == Alloc(h, mk_num_node(h[t].num))
        IN  [h |-> r.h, M |-> M, t |-> r.t]
    ELSE
        LET r == Alloc(h, mk_struct_node(h[t].name, h[t].arity))
        IN  copy_args(r.h, M, t, r.t, 1)

RECURSIVE copy_body(_, _, _, _, _)
\* for (j = 0; j < bn; j++) B[j] = copy_term(cl->body[j], &M);
copy_body(h, M, body, j, acc) ==
    IF j > Len(body) THEN [h |-> h, M |-> M, ts |-> acc]
    ELSE LET r == copy_term(h, M, body[j])
         IN  Strict(r, copy_body(r.h, r.M, body, j + 1, Append(acc, r.t)))

(***************************************************************************)
(* Printing: the sequence of strings the printf calls write, in order.     *)
(***************************************************************************)
is_nil(h, t) == h[t].k = TM_STRUC /\ h[t].arity = 0 /\ h[t].name = "[]"
is_cons(h, t) == h[t].k = TM_STRUC /\ h[t].name = "." /\ h[t].arity = 2

is_list_like(h, t0) ==
    LET t == deref(h, t0) IN is_nil(h, t) \/ is_cons(h, t)

RECURSIVE print_term(_, _)
RECURSIVE print_list_loop(_, _, _)
RECURSIVE print_args(_, _, _)

\* The while (1) of print_list; `first` is its flag.
print_list_loop(h, t0, first) ==
    LET t == deref(h, t0)
    IN  IF is_nil(h, t) THEN <<>>
        ELSE IF is_cons(h, t)
            THEN (IF first THEN <<>> ELSE <<", ">>)
                 \o print_term(h, h[t].args[1])
                 \o print_list_loop(h, h[t].args[2], FALSE)
        ELSE (IF first THEN <<>> ELSE <<", ">>) \o <<"| ">> \o print_term(h, t)

print_list(h, t) == <<"[">> \o print_list_loop(h, t, TRUE) \o <<"]">>

print_args(h, t, i) ==
    IF i > h[t].arity THEN <<>>
    ELSE (IF i > 1 THEN <<", ">> ELSE <<>>)
         \o print_term(h, h[t].args[i]) \o print_args(h, t, i + 1)

print_term(h, t0) ==
    LET t == deref(h, t0)
    IN  IF h[t].k = TM_VAR THEN <<h[t].name>>
        ELSE IF h[t].k = TM_NUM THEN <<ToString(h[t].num)>>
        ELSE IF is_list_like(h, t) THEN print_list(h, t)
        ELSE <<h[t].name>>
             \o (IF h[t].arity > 0
                 THEN <<"(">> \o print_args(h, t, 1) \o <<")">>
                 ELSE <<>>)

(***************************************************************************)
(* Built-ins                                                               *)
(***************************************************************************)
\* is_atom without the comparison of the arity.
is_atom_anyarity(h, t0, name, arity) ==
    LET t == deref(h, t0)
    IN  h[t].k = TM_STRUC /\ h[t].arity >= arity /\ h[t].name = name

is_atom(h, t0, name, arity) ==
    LET t == deref(h, t0)
    IN  h[t].k = TM_STRUC /\ h[t].arity = arity /\ h[t].name = name

\* "=": unify under a mark, unwind on failure.
\* "=" without the trail_unwind on failure.
builtin_eq_noundo(h, tr, o, goal) ==
    LET u == unify(h, tr, h[goal].args[1], h[goal].args[2])
    IN  [r |-> IF u.ok THEN 1 ELSE 0, h |-> u.h, tr |-> u.tr, out |-> o]

builtin_eq(h, tr, o, goal) ==
    LET m == trail_mark(tr)
        u == unify(h, tr, h[goal].args[1], h[goal].args[2])
        w == trail_unwind(u.h, u.tr, m)
    IN  IF u.ok THEN [r |-> 1, h |-> u.h, tr |-> u.tr, out |-> o]
        ELSE [r |-> 0, h |-> w.h, tr |-> w.tr, out |-> o]

\* "dif": unify under a mark, always unwind, succeed iff unify failed.
\* "dif" unwinding only where unify failed.
builtin_dif_keep(h, tr, o, goal) ==
    LET m == trail_mark(tr)
        u == unify(h, tr, h[goal].args[1], h[goal].args[2])
        w == trail_unwind(u.h, u.tr, m)
    IN  IF u.ok THEN [r |-> 0, h |-> u.h, tr |-> u.tr, out |-> o]
        ELSE [r |-> 1, h |-> w.h, tr |-> w.tr, out |-> o]

\* "dif" succeeding where unify bound nothing.
builtin_dif_nobind(h, tr, o, goal) ==
    LET m == trail_mark(tr)
        u == unify(h, tr, h[goal].args[1], h[goal].args[2])
        w == trail_unwind(u.h, u.tr, m)
    IN  [r |-> IF u.ok /\ u.tr # tr THEN 0 ELSE 1, h |-> w.h, tr |-> w.tr, out |-> o]

builtin_dif(h, tr, o, goal) ==
    LET m == trail_mark(tr)
        u == unify(h, tr, h[goal].args[1], h[goal].args[2])
        w == trail_unwind(u.h, u.tr, m)
    IN  [r |-> IF u.ok THEN 0 ELSE 1, h |-> w.h, tr |-> w.tr, out |-> o]

\* builtin_call without the entry for fail/0.
builtin_call_no_fail(h, tr, o, goal0) ==
    LET goal == deref(h, goal0)
    IN  IF is_atom(h, goal, "true", 0) THEN [r |-> 1, h |-> h, tr |-> tr, out |-> o]
        ELSE IF is_atom(h, goal, "nl", 0)
            THEN [r |-> 1, h |-> h, tr |-> tr, out |-> Append(o, "\n")]
        ELSE IF is_atom(h, goal, "write", 1)
            THEN [r |-> 1, h |-> h, tr |-> tr,
                  out |-> o \o print_term(h, h[goal].args[1])]
        ELSE IF is_atom(h, goal, "=", 2) THEN builtin_eq(h, tr, o, goal)
        ELSE IF is_atom(h, goal, "dif", 2) THEN builtin_dif(h, tr, o, goal)
        ELSE [r |-> -1, h |-> h, tr |-> tr, out |-> o]

\* builtin_call testing the goal as it is given, never dereferenced.
builtin_call_noderef(h, tr, o, goal) ==
    LET is(name, arity) ==
            h[goal].k = TM_STRUC /\ h[goal].arity = arity /\ h[goal].name = name
    IN  IF is("true", 0) THEN [r |-> 1, h |-> h, tr |-> tr, out |-> o]
        ELSE IF is("fail", 0) THEN [r |-> 0, h |-> h, tr |-> tr, out |-> o]
        ELSE IF is("nl", 0)
            THEN [r |-> 1, h |-> h, tr |-> tr, out |-> Append(o, "\n")]
        ELSE IF is("write", 1)
            THEN [r |-> 1, h |-> h, tr |-> tr,
                  out |-> o \o print_term(h, h[goal].args[1])]
        ELSE IF is("=", 2) THEN builtin_eq(h, tr, o, goal)
        ELSE IF is("dif", 2) THEN builtin_dif(h, tr, o, goal)
        ELSE [r |-> -1, h |-> h, tr |-> tr, out |-> o]

\* 1: succeeded, 0: failed, -1: not a built-in.
builtin_call(h, tr, o, goal0) ==
    LET goal == deref(h, goal0)
    IN  IF is_atom(h, goal, "true", 0) THEN [r |-> 1, h |-> h, tr |-> tr, out |-> o]
        ELSE IF is_atom(h, goal, "fail", 0)
            THEN [r |-> 0, h |-> h, tr |-> tr, out |-> o]
        ELSE IF is_atom(h, goal, "nl", 0)
            THEN [r |-> 1, h |-> h, tr |-> tr, out |-> Append(o, "\n")]
        ELSE IF is_atom(h, goal, "write", 1)
            THEN [r |-> 1, h |-> h, tr |-> tr,
                  out |-> o \o print_term(h, h[goal].args[1])]
        ELSE IF is_atom(h, goal, "=", 2) THEN builtin_eq(h, tr, o, goal)
        ELSE IF is_atom(h, goal, "dif", 2) THEN builtin_dif(h, tr, o, goal)
        ELSE [r |-> -1, h |-> h, tr |-> tr, out |-> o]

(***************************************************************************)
(* Query variables and solution reports                                    *)
(***************************************************************************)
vset_add(Sv, v) ==
    IF \E i \in 1..Len(Sv) : Sv[i] = v THEN Sv ELSE Append(Sv, v)

RECURSIVE collect_vars(_, _, _)
RECURSIVE collect_args(_, _, _, _)

collect_args(h, t, i, Sv) ==
    IF i > h[t].arity THEN Sv
    ELSE collect_args(h, t, i + 1, collect_vars(h, h[t].args[i], Sv))

\* collect_vars without the test of the anonymous flag.
collect_vars_anon(h, t0, Sv) ==
    LET t == deref(h, t0)
    IN  IF h[t].k = TM_VAR THEN vset_add(Sv, t)
        ELSE IF h[t].k = TM_STRUC THEN collect_args(h, t, 1, Sv)
        ELSE Sv

collect_vars(h, t0, Sv) ==
    LET t == deref(h, t0)
    IN  IF h[t].k = TM_VAR
        THEN (IF h[t].anonymous = 0 THEN vset_add(Sv, t) ELSE Sv)
        ELSE IF h[t].k = TM_STRUC THEN collect_args(h, t, 1, Sv)
        ELSE Sv

RECURSIVE collect_goals(_, _, _, _)
\* main: for (i = 0; i < last_query.n; i++) collect_vars(last_query.ptrs[i], &qvars);
collect_goals(h, goals, i, Sv) ==
    IF i > Len(goals) THEN Sv
    ELSE collect_goals(h, goals, i + 1, collect_vars(h, goals[i], Sv))

RECURSIVE print_bindings(_, _, _)
print_bindings(h, Sv, i) ==
    IF i > Len(Sv) THEN <<>>
    ELSE (IF i > 1 THEN <<", ">> ELSE <<>>)
         \o <<h[Sv[i]].name \o " = ">>
         \o print_term(h, Sv[i])
         \o print_bindings(h, Sv, i + 1)

print_solution(h, Sv) ==
    IF Len(Sv) = 0 THEN <<"true\n">>
    ELSE print_bindings(h, Sv, 1) \o <<"\n">>

\* concat_goals that puts the remaining goals before the body.
concat_goals_rest_first(body, rest) ==
    [i \in 1..(Len(body) + Len(rest)) |->
        IF i <= Len(rest) THEN rest[i] ELSE body[i - Len(rest)]]

\* concat_goals copying rn - 1 of the remaining goals.
concat_goals_short(body, rest) ==
    [i \in 1..(Len(body) + Len(rest) - (IF Len(rest) > 0 THEN 1 ELSE 0)) |->
        IF i <= Len(body) THEN body[i] ELSE rest[i - Len(body)]]

\* concat_goals(body, bn, rest, rn, &outn)
concat_goals(body, rest) ==
    [i \in 1..(Len(body) + Len(rest)) |->
        IF i <= Len(body) THEN body[i] ELSE rest[i - Len(body)]]

(***************************************************************************)
(* solve, as an explicit call stack.  A frame holds the locals of one      *)
(* activation: goals, the clause index i, mark, the VMap M, Hcopy and B,   *)
(* and where the activation stands:                                        *)
(*   "entry"  at its first statement                                       *)
(*   "callB"  inside solve(goals + 1, ...) after a built-in succeeded      *)
(*   "loop"   at the head of the clause loop, about to test i < g_kb.n     *)
(*   "callC"  inside solve(NG, ...) of clause i                            *)
(* e_heap, e_trail and e_count record the heap, the trail and              *)
(* g_solution_count as they were when the activation reached the clause    *)
(* loop (history only, never read by an action).                           *)
(***************************************************************************)
Frame(goals) ==
    [pc |-> "entry", goals |-> goals, i |-> 0, mark |-> 0, M |-> VMapEmpty,
     Hcopy |-> NULL, B |-> <<>>, e_heap |-> <<>>, e_trail |-> <<>>,
     e_count |-> 0]

Top == stack[Len(stack)]
Pop(st) == SubSeq(st, 1, Len(st) - 1)
SetTop(st, f) == [st EXCEPT ![Len(st)] = f]
Running == pc = "solve" /\ Len(stack) > 0

\* goals + 1, gn - 1
RestGoals(goals) == SubSeq(goals, 2, Len(goals))

\* The quick functor filter: TRUE when clause i must be skipped (continue).
filter_skips(h, G, H) ==
    LET Gh == deref(h, G)
    IN  IF h[Gh].k = TM_STRUC /\ h[H].k = TM_STRUC
        THEN h[Gh].name # h[H].name \/ h[Gh].arity # h[H].arity
        ELSE h[Gh].k # h[H].k

\* The loop without its i++.
next_i_same(i) == i

\* The next clause index after an iteration of the loop.
next_i(i) == i + 1

\* The goal unified with the stored head itself, no copy_term.
try_head_nocopy(h, tr, G, cl) ==
    LET u == unify(h, tr, deref(h, G), cl.head)
    IN  [ok |-> u.ok, h |-> u.h, tr |-> u.tr, M |-> VMapEmpty, Hcopy |-> cl.head]

\* Clause i's head copied under a fresh map and unified with the goal.
try_head(h, tr, G, cl) ==
    LET c == copy_term(h, VMapEmpty, cl.head)
        u == unify(c.h, tr, deref(h, G), c.t)
    IN  [ok |-> u.ok, h |-> u.h, tr |-> u.tr, M |-> c.M, Hcopy |-> c.t]

\* gn == 0 counting the solution without printing it.
SolveSolution_Silent ==
    /\ Running
    /\ Top.pc = "entry"
    /\ Len(Top.goals) = 0
    /\ g_solution_count' = g_solution_count + 1
    /\ stack' = Pop(stack)
    /\ UNCHANGED <<src, pos, pc, heap, g_trail, g_kb, last_query, qvars, out, hvars>>

\* gn == 0 undoing every binding once the solution is printed.
SolveSolution_Reset ==
    /\ Running
    /\ Top.pc = "entry"
    /\ Len(Top.goals) = 0
    /\ g_solution_count' = g_solution_count + 1
    /\ out' = out \o print_solution(heap, qvars)
    /\ LET w == trail_unwind(heap, g_trail, 0)
       IN  /\ heap' = w.h
           /\ g_trail' = w.tr
    /\ stack' = Pop(stack)
    /\ UNCHANGED <<src, pos, pc, g_kb, last_query, qvars, hvars>>

\* gn == 0: count and report the solution, return.
SolveSolution ==
    /\ Running
    /\ Top.pc = "entry"
    /\ Len(Top.goals) = 0
    /\ g_solution_count' = g_solution_count + 1
    /\ out' = out \o print_solution(heap, qvars)
    /\ stack' = Pop(stack)
    /\ UNCHANGED <<src, pos, pc, heap, g_trail, g_kb, last_query, qvars, hvars>>

\* bi == 1: continue with the rest of the goals.
SolveBuiltinTrue ==
    /\ Running
    /\ Top.pc = "entry"
    /\ Len(Top.goals) > 0
    /\ LET r == builtin_call(heap, g_trail, out, Top.goals[1])
       IN  /\ r.r = 1
           /\ heap' = r.h
           /\ g_trail' = r.tr
           /\ out' = r.out
           /\ stack' = Append(SetTop(stack, [Top EXCEPT !.pc = "callB"]),
                              Frame(RestGoals(Top.goals)))
    /\ UNCHANGED <<src, pos, pc, g_kb, last_query, qvars, g_solution_count, hvars>>

\* The return on a failed built-in, discarding what was printed so far.
SolveBuiltinFail_DropOutput ==
    /\ Running
    /\ Top.pc = "entry"
    /\ Len(Top.goals) > 0
    /\ LET r == builtin_call(heap, g_trail, out, Top.goals[1])
       IN  /\ r.r = 0
           /\ heap' = r.h
           /\ g_trail' = r.tr
           /\ out' = <<>>
           /\ stack' = Pop(stack)
    /\ UNCHANGED <<src, pos, pc, g_kb, last_query, qvars, g_solution_count, hvars>>

\* bi == 0: the built-in failed, return.
SolveBuiltinFail ==
    /\ Running
    /\ Top.pc = "entry"
    /\ Len(Top.goals) > 0
    /\ LET r == builtin_call(heap, g_trail, out, Top.goals[1])
       IN  /\ r.r = 0
           /\ heap' = r.h
           /\ g_trail' = r.tr
           /\ out' = r.out
           /\ stack' = Pop(stack)
    /\ UNCHANGED <<src, pos, pc, g_kb, last_query, qvars, g_solution_count, hvars>>

\* solve(goals + 1, ...) returned after a built-in: return.
SolveBuiltinReturn ==
    /\ Running
    /\ Top.pc = "callB"
    /\ stack' = Pop(stack)
    /\ UNCHANGED <<src, pos, pc, heap, g_trail, g_kb, last_query, qvars,
                   g_solution_count, out, hvars>>

\* bi == -1 storing the dereferenced goal back: goals[0] = deref(G).
SolveEnterLoop_StoreDeref ==
    /\ Running
    /\ Top.pc = "entry"
    /\ Len(Top.goals) > 0
    /\ builtin_call(heap, g_trail, out, Top.goals[1]).r = -1
    /\ stack' = SetTop(stack, [Top EXCEPT !.pc = "loop", !.i = 0,
                                          !.goals[1] = deref(heap, Top.goals[1]),
                                          !.e_heap = heap, !.e_trail = g_trail,
                                          !.e_count = g_solution_count])
    /\ UNCHANGED <<src, pos, pc, heap, g_trail, g_kb, last_query, qvars,
                   g_solution_count, out, hvars>>

\* bi == -1: not a built-in, enter the clause loop with i = 0.
SolveEnterLoop ==
    /\ Running
    /\ Top.pc = "entry"
    /\ Len(Top.goals) > 0
    /\ builtin_call(heap, g_trail, out, Top.goals[1]).r = -1
    /\ stack' = SetTop(stack, [Top EXCEPT !.pc = "loop", !.i = 0,
                                          !.e_heap = heap, !.e_trail = g_trail,
                                          !.e_count = g_solution_count])
    /\ UNCHANGED <<src, pos, pc, heap, g_trail, g_kb, last_query, qvars,
                   g_solution_count, out, hvars>>

\* An iteration the functor filter ends with continue.
SolveClauseSkip ==
    /\ Running
    /\ Top.pc = "loop"
    /\ Top.i < Len(g_kb)
    /\ filter_skips(heap, Top.goals[1], g_kb[Top.i + 1].head)
    /\ stack' = SetTop(stack, [Top EXCEPT !.i = next_i(Top.i)])
    /\ UNCHANGED <<src, pos, pc, heap, g_trail, g_kb, last_query, qvars,
                   g_solution_count, out, hvars>>

\* An iteration whose head unification fails: unwind, next clause.
SolveClauseFail ==
    /\ Running
    /\ Top.pc = "loop"
    /\ Top.i < Len(g_kb)
    /\ ~filter_skips(heap, Top.goals[1], g_kb[Top.i + 1].head)
    /\ LET mark == trail_mark(g_trail)
           u == try_head(heap, g_trail, Top.goals[1], g_kb[Top.i + 1])
           w == trail_unwind(u.h, u.tr, mark)
       IN  /\ ~u.ok
           /\ heap' = w.h
           /\ g_trail' = w.tr
           /\ stack' = SetTop(stack, [Top EXCEPT !.i = next_i(Top.i)])
    /\ UNCHANGED <<src, pos, pc, g_kb, last_query, qvars, g_solution_count,
                   out, hvars>>

\* An iteration whose head unifies: copy the body, solve(NG, ...).
SolveClauseCall ==
    /\ Running
    /\ Top.pc = "loop"
    /\ Top.i < Len(g_kb)
    /\ ~filter_skips(heap, Top.goals[1], g_kb[Top.i + 1].head)
    /\ LET mark == trail_mark(g_trail)
           cl == g_kb[Top.i + 1]
           u == try_head(heap, g_trail, Top.goals[1], cl)
           b == copy_body(u.h, u.M, cl.body, 1, <<>>)
           NG == concat_goals(b.ts, RestGoals(Top.goals))
       IN  /\ u.ok
           /\ heap' = b.h
           /\ g_trail' = u.tr
           /\ stack' = Append(SetTop(stack, [Top EXCEPT !.pc = "callC",
                                                        !.mark = mark,
                                                        !.M = b.M,
                                                        !.Hcopy = u.Hcopy,
                                                        !.B = b.ts]),
                              Frame(NG))
    /\ UNCHANGED <<src, pos, pc, g_kb, last_query, qvars, g_solution_count,
                   out, hvars>>

\* SolveClauseReturn without trail_unwind(mark).
SolveClauseReturn_NoUnwind ==
    /\ Running
    /\ Top.pc = "callC"
    /\ stack' = SetTop(stack, [Top EXCEPT !.pc = "loop", !.i = next_i(Top.i),
                                          !.M = VMapEmpty, !.Hcopy = NULL,
                                          !.B = <<>>])
    /\ UNCHANGED <<src, pos, pc, heap, g_trail, g_kb, last_query, qvars,
                   g_solution_count, out, hvars>>

\* SolveClauseReturn that leaves the loop once a solution has been reported.
SolveClauseReturn_Cut ==
    /\ Running
    /\ Top.pc = "callC"
    /\ LET w == trail_unwind(heap, g_trail, Top.mark)
       IN  /\ heap' = w.h
           /\ g_trail' = w.tr
    /\ stack' = SetTop(stack, [Top EXCEPT !.pc = "loop",
                                          !.i = IF g_solution_count > 0
                                                THEN Len(g_kb)
                                                ELSE next_i(Top.i),
                                          !.M = VMapEmpty, !.Hcopy = NULL,
                                          !.B = <<>>])
    /\ UNCHANGED <<src, pos, pc, g_kb, last_query, qvars, g_solution_count,
                   out, hvars>>

\* solve(NG, ...) returned: trail_unwind(mark), next clause.
SolveClauseReturn ==
    /\ Running
    /\ Top.pc = "callC"
    /\ LET w == trail_unwind(heap, g_trail, Top.mark)
       IN  /\ heap' = w.h
           /\ g_trail' = w.tr
    /\ stack' = SetTop(stack, [Top EXCEPT !.pc = "loop", !.i = next_i(Top.i),
                                          !.M = VMapEmpty, !.Hcopy = NULL,
                                          !.B = <<>>])
    /\ UNCHANGED <<src, pos, pc, g_kb, last_query, qvars, g_solution_count,
                   out, hvars>>

\* i == g_kb.n: the loop ends, return.
SolveLoopExit ==
    /\ Running
    /\ Top.pc = "loop"
    /\ Top.i >= Len(g_kb)
    /\ stack' = Pop(stack)
    /\ UNCHANGED <<src, pos, pc, heap, g_trail, g_kb, last_query, qvars,
                   g_solution_count, out, hvars>>

(***************************************************************************)
(* main                                                                    *)
(***************************************************************************)
\* The parse loop on a clause: g_kb.c[g_kb.n++] = *cl.
MainParseClause ==
    /\ pc = "parse"
    /\ pos <= Len(src)
    /\ ~src[pos].q
    /\ LET r == parse_clause(heap, src[pos])
       IN  /\ heap' = r.h
           /\ g_kb' = Append(g_kb, r.cl)
    /\ pos' = pos + 1
    /\ UNCHANGED <<src, pc, g_trail, last_query, qvars, g_solution_count,
                   stack, out, hvars>>

\* The parse loop keeping the first query of the source.
MainParseQuery_KeepFirst ==
    /\ pc = "parse"
    /\ pos <= Len(src)
    /\ src[pos].q
    /\ LET r == parse_query(heap, src[pos])
       IN  /\ heap' = r.h
           /\ last_query' = IF Len(last_query) = 0 THEN r.goals ELSE last_query
    /\ pos' = pos + 1
    /\ UNCHANGED <<src, pc, g_trail, g_kb, qvars, g_solution_count, stack,
                   out, hvars>>

\* The parse loop on a query: it replaces last_query.
MainParseQuery ==
    /\ pc = "parse"
    /\ pos <= Len(src)
    /\ src[pos].q
    /\ LET r == parse_query(heap, src[pos])
       IN  /\ heap' = r.h
           /\ last_query' = r.goals
    /\ pos' = pos + 1
    /\ UNCHANGED <<src, pc, g_trail, g_kb, qvars, g_solution_count, stack,
                   out, hvars>>

\* The goals main solves: last_query, or [true] when the source has none.
main_goals(h, lq) ==
    IF Len(lq) = 0
    THEN LET r == Alloc(h, mk_struct_node("true", 0))
         IN  [h |-> r.h, goals |-> <<r.t>>]
    ELSE [h |-> h, goals |-> lq]

\* TK_EOF: collect the query variables and call solve.
MainSolve ==
    /\ pc = "parse"
    /\ pos > Len(src)
    /\ LET g == main_goals(heap, last_query)
       IN  /\ heap' = g.h
           /\ last_query' = g.goals
           /\ qvars' = collect_goals(g.h, g.goals, 1, <<>>)
           /\ stack' = <<Frame(g.goals)>>
    /\ g_solution_count' = 0
    /\ pc' = "solve"
    /\ UNCHANGED <<src, pos, g_trail, g_kb, out, hvars>>

\* solve returned to main: print false. when nothing was reported.
\* main printing false. whatever g_solution_count is.
MainFinish_Always ==
    /\ pc = "solve"
    /\ Len(stack) = 0
    /\ out' = Append(out, "false.\n")
    /\ pc' = "done"
    /\ UNCHANGED <<src, pos, heap, g_trail, g_kb, last_query, qvars,
                   g_solution_count, stack, hvars>>

MainFinish ==
    /\ pc = "solve"
    /\ Len(stack) = 0
    /\ out' = IF g_solution_count = 0 THEN Append(out, "false.\n") ELSE out
    /\ pc' = "done"
    /\ UNCHANGED <<src, pos, heap, g_trail, g_kb, last_query, qvars,
                   g_solution_count, stack, hvars>>

(***************************************************************************)
(* solve as a function of its arguments and the globals it changes: the    *)
(* same statements as the actions above, the recursion of the code being   *)
(* the recursion of the operator.  s holds the heap, the trail, stdout and *)
(* g_solution_count.  With flt = FALSE the quick functor filter is left    *)
(* out and every clause is renamed and passed to unify.                    *)
(***************************************************************************)
RECURSIVE solve_rec(_, _, _)
RECURSIVE solve_clauses(_, _, _, _)

\* The clause loop without trail_unwind(mark) at the end of an iteration.
solve_clauses_nounwind(flt, s, goals, i) ==
    IF i >= Len(g_kb) THEN s
    ELSE IF flt /\ filter_skips(s.h, goals[1], g_kb[i + 1].head)
        THEN solve_clauses(flt, s, goals, next_i(i))
    ELSE LET cl == g_kb[i + 1]
             u == try_head(s.h, s.tr, goals[1], cl)
             b == copy_body(u.h, u.M, cl.body, 1, <<>>)
             NG == concat_goals(b.ts, RestGoals(goals))
             r == IF u.ok
                  THEN solve_rec(flt, [s EXCEPT !.h = b.h, !.tr = u.tr], NG)
                  ELSE [s EXCEPT !.h = u.h, !.tr = u.tr]
         IN  Strict(r, solve_clauses(flt, r, goals, next_i(i)))

solve_clauses(flt, s, goals, i) ==
    IF i >= Len(g_kb) THEN s
    ELSE IF flt /\ filter_skips(s.h, goals[1], g_kb[i + 1].head)
        THEN solve_clauses(flt, s, goals, next_i(i))
    ELSE LET mark == trail_mark(s.tr)
             cl == g_kb[i + 1]
             u == try_head(s.h, s.tr, goals[1], cl)
             b == copy_body(u.h, u.M, cl.body, 1, <<>>)
             NG == concat_goals(b.ts, RestGoals(goals))
             r == IF u.ok
                  THEN solve_rec(flt, [s EXCEPT !.h = b.h, !.tr = u.tr], NG)
                  ELSE [s EXCEPT !.h = u.h, !.tr = u.tr]
             w == trail_unwind(r.h, r.tr, mark)
         IN  Strict(w, solve_clauses(flt, [r EXCEPT !.h = w.h, !.tr = w.tr],
                                     goals, next_i(i)))

solve_rec(flt, s, goals) ==
    IF Len(goals) = 0
    THEN [s EXCEPT !.n = s.n + 1, !.o = s.o \o print_solution(s.h, qvars)]
    ELSE LET r == builtin_call(s.h, s.tr, s.o, goals[1])
             s1 == [s EXCEPT !.h = r.h, !.tr = r.tr, !.o = r.out]
         IN  IF r.r = 1 THEN solve_rec(flt, s1, RestGoals(goals))
             ELSE IF r.r = 0 THEN s1
             ELSE solve_clauses(flt, s, goals, 0)

\* main from the call of solve on: g_solution_count = 0, solve, false.
main_run(flt, h) ==
    LET r == solve_rec(flt, [h |-> h, tr |-> <<>>, o |-> <<>>, n |-> 0], last_query)
    IN  [n |-> r.n,
         o |-> IF r.n = 0 THEN Append(r.o, "false.\n") ELSE r.o]

\* The function and the actions give one result.
RefAgrees ==
    pc = "done" => main_run(TRUE, heap).o = out /\ main_run(TRUE, heap).n = g_solution_count

(***************************************************************************)
(* Sources                                                                 *)
(***************************************************************************)
parent(a, b) == S2("parent", a, b)
ancestor(a, b) == S2("ancestor", a, b)

\* demo_program's parent/ancestor clauses, in their textual order.
Family ==
    << Fact(parent(A("alice"), A("bob"))),
       Fact(parent(A("bob"), A("carol"))),
       Fact(parent(A("alice"), A("dana"))),
       Rule(ancestor(V("X"), V("Y")), <<parent(V("X"), V("Y"))>>),
       Rule(ancestor(V("X"), V("Y")),
            <<parent(V("X"), V("Z")), ancestor(V("Z"), V("Y"))>>) >>

ProgCarol == Family \o <<Query(<<ancestor(V("A"), A("carol"))>>)>>

ProgNobody == Family \o <<Query(<<ancestor(V("A"), A("nobody"))>>)>>

\* demo_program as a whole; [H|T] and [] are given as parse_list builds them.
ProgDemo ==
    << Fact(parent(A("alice"), A("bob"))),
       Fact(parent(A("bob"), A("carol"))),
       Fact(parent(A("alice"), A("dana"))),
       Fact(S1("male", A("bob"))),
       Fact(S1("female", A("alice"))),
       Rule(ancestor(V("X"), V("Y")), <<parent(V("X"), V("Y"))>>),
       Rule(ancestor(V("X"), V("Y")),
            <<parent(V("X"), V("Z")), ancestor(V("Z"), V("Y"))>>),
       Fact(S1("write_list", A("[]"))),
       Rule(S1("write_list", S2(".", V("H"), V("T"))),
            <<S1("write", V("H")), S1("write", A(" ")),
              S1("write_list", V("T"))>>),
       Query(<<ancestor(V("A"), A("carol")), S1("write", A("A=")),
               S1("write", V("A")), A("nl")>>) >>

ProgWriteFail == <<Query(<<S1("write", A("hello")), A("fail")>>)>>

\* User clauses with the names and arities of built-ins.
ShadowClauses ==
    << Fact(A("fail")),
       Rule(A("true"), <<A("fail")>>),
       Rule(S1("write", V("X")), <<A("fail")>>),
       Rule(A("nl"), <<A("fail")>>),
       Fact(S2("dif", V("X"), V("Y"))),
       Fact(S1("p", N(1))) >>

ProgShadow ==
    ShadowClauses
        \o <<Query(<<A("true"), S1("write", S1("p", V("Q"))), A("nl"),
                     S2("dif", A("a"), A("b")), S1("p", V("Q")), A("fail")>>)>>

ProgShadowDif == ShadowClauses \o <<Query(<<S2("dif", V("Q"), N(1))>>)>>

\* Two goals with two alternatives each, a rule among them.
ProgPairs ==
    << Fact(S1("p", A("a"))),
       Rule(S1("p", V("X")), <<S1("q", V("X"))>>),
       Fact(S1("q", A("b"))),
       Fact(S1("p", A("c"))),
       Query(<<S1("p", V("X")), S1("p", V("Y")), S2("dif", V("X"), V("Y"))>>) >>

\* No query at all.
ProgNoQuery == <<Fact(S1("p", A("a")))>>

\* Two queries, and a clause after the last of them.
ProgTwoQueries ==
    << Fact(S1("p", A("a"))),
       Query(<<S1("p", V("X"))>>),
       Query(<<S1("p", V("Y")), S1("write", V("Y")), A("nl")>>),
       Fact(S1("p", N(2))) >>

\* The anonymous name used twice in one clause, and in the query.
ProgAnon ==
    << Fact(S2("p", V("_"), V("_"))),
       Fact(S2("r", A("a"), A("b"))),
       Query(<<S2("r", V("U"), V("_G")), S2("p", V("U"), V("W"))>>) >>

\* Goals that are not compounds: a number, an unbound variable, a variable
\* bound to a built-in; clauses whose head is a variable or a number.
ProgOddGoals ==
    << Rule(V("X"), <<S1("write", A("varhead")), A("nl")>>),
       Fact(N(7)),
       Fact(S1("call", V("G"))),
       Rule(S1("run", V("G")), <<V("G")>>),
       Query(<<S1("run", V("Z")), S1("run", N(7)), S1("run", A("true")),
               S1("run", S1("call", N(1)))>>) >>

\* Output between a choice point and a failure.
ProgWriteBacktrack ==
    << Fact(S1("p", A("a"))),
       Fact(S1("p", A("b"))),
       Query(<<S1("p", V("X")), S1("write", V("X")), A("nl"), A("fail")>>) >>

\* A clause whose head is a variable, before a fact for the goal.
ProgVarHead ==
    << Rule(V("X"), <<S1("write", A("varhead")), A("nl")>>),
       Fact(S1("run", A("a"))),
       Query(<<S1("run", V("Z"))>>) >>

\* A goal that is an unbound variable.
ProgVarGoal == <<Fact(S1("p", A("a"))), Query(<<V("X")>>)>>

\* Goals that are not callable: write with two arguments, a number, an
\* unbound variable, each in the body of an alternative of r(X).
ProgMalformed ==
    << Rule(S1("r", A("a")), <<S2("write", A("a"), A("b"))>>),
       Rule(S1("r", A("b")), <<N(7)>>),
       Rule(S1("r", A("c")), <<V("V")>>),
       Fact(S1("r", A("d"))),
       Query(<<S1("r", V("X"))>>) >>

\* Built-ins reached through a variable, and goals with the name of a
\* built-in and another arity, for which the source has facts.
ProgDispatch ==
    << Fact(S1("true", N(1))),
       Fact(S2("write", A("a"), A("b"))),
       Rule(S1("call", V("G")), <<V("G")>>),
       Query(<<S1("call", A("true")), S1("call", S1("write", A("x"))),
               S1("call", A("nl")), S1("true", N(1)), S2("write", A("a"), A("b")),
               S1("call", S2("dif", A("a"), A("b")))>>) >>

\* The anonymous name twice in one head, against two different arguments.
ProgAnonFail ==
    << Fact(S2("p", V("_"), V("_"))),
       Fact(S1("q", V("_"))),
       Query(<<S1("q", A("b")), S2("p", A("a"), A("b"))>>) >>

Programs ==
    {ProgCarol, ProgNobody, ProgDemo, ProgWriteFail, ProgShadow, ProgShadowDif,
     ProgPairs, ProgWriteBacktrack, ProgVarHead, ProgVarGoal, ProgMalformed,
     ProgNoQuery, ProgTwoQueries, ProgAnon, ProgAnonFail, ProgOddGoals,
     ProgDispatch}

NoOp == [op |-> "none", a |-> NULL, b |-> NULL, ok |-> FALSE, m |-> 0,
         h0 |-> <<>>, tr0 |-> <<>>]

(***************************************************************************)
(* The driver's specification                                              *)
(***************************************************************************)
Init ==
    /\ src \in Programs
    /\ pos = 1
    /\ pc = "parse"
    /\ heap = <<>>
    /\ g_trail = <<>>
    /\ g_kb = <<>>
    /\ last_query = <<>>
    /\ qvars = <<>>
    /\ g_solution_count = 0
    /\ stack = <<>>
    /\ out = <<>>
    /\ calls = 0
    /\ marks = <<>>
    /\ last = NoOp

Next ==
    \/ MainParseClause
    \/ MainParseQuery
    \/ MainSolve
    \/ SolveSolution
    \/ SolveBuiltinTrue
    \/ SolveBuiltinFail
    \/ SolveBuiltinReturn
    \/ SolveEnterLoop
    \/ SolveClauseSkip
    \/ SolveClauseFail
    \/ SolveClauseCall
    \/ SolveClauseReturn
    \/ SolveLoopExit
    \/ MainFinish

Spec == Init /\ [][Next]_vars

RECURSIVE Concat(_)
\* stdout as one string.
Concat(chunks) ==
    IF Len(chunks) = 0 THEN "" ELSE Head(chunks) \o Concat(Tail(chunks))

Stdout == Concat(out)

(***************************************************************************)
(* solve called on goal lists and clause bodies that hold =/2 goals.  The  *)
(* lexer has no token for "=", so no source text gives such a goal: the    *)
(* terms below are the nodes that calls of mk_struct("=", 2) build, as an  *)
(* embedding program or a test of solve makes them, and the driver runs    *)
(* on them as on parsed ones.                                              *)
(***************************************************************************)
eq(a, b) == S2("=", a, b)

EqTop == <<Query(<<eq(V("X"), A("a"))>>)>>

EqFail == <<Query(<<eq(V("X"), A("a")), eq(V("X"), A("b"))>>)>>

EqBody ==
    << Rule(S1("q", V("X")), <<eq(V("X"), A("a"))>>),
       Fact(S1("q", A("b"))),
       Query(<<S1("q", V("Z"))>>) >>

EqSearch ==
    << Fact(S1("p", A("a"))),
       Fact(S1("p", A("b"))),
       Fact(S1("r", A("c"))),
       Query(<<S1("p", V("X")), eq(V("X"), A("b")), S1("p", A("b")),
               S1("r", V("Y"))>>) >>

EqChain ==
    << Query(<<A("true"), eq(V("X"), V("Y")), S2("dif", V("Y"), N(1)),
               eq(V("Y"), N(1)), S1("write", V("X")), A("nl")>>) >>

EqPrograms == {EqTop, EqFail, EqBody, EqSearch, EqChain}

InitSolve ==
    /\ src \in EqPrograms \cup Programs
    /\ pos = 1
    /\ pc = "parse"
    /\ heap = <<>>
    /\ g_trail = <<>>
    /\ g_kb = <<>>
    /\ last_query = <<>>
    /\ qvars = <<>>
    /\ g_solution_count = 0
    /\ stack = <<>>
    /\ out = <<>>
    /\ calls = 0
    /\ marks = <<>>
    /\ last = NoOp

SpecSolve == InitSolve /\ [][Next]_vars

(***************************************************************************)
(* The unit harness: unify, trail_mark and trail_unwind called directly,   *)
(* in any order, on the terms of a pool.  last_query holds the pool's      *)
(* terms, parsed with one VarEnv so that equal names are one variable.     *)
(***************************************************************************)
MaxCalls == 2
MaxMarks == 2

f1(a) == S1("f", a)
f2(a, b) == S2("f", a, b)

Pool ==
    << f2(V("A"), V("B")), f2(N(1), N(2)), f2(V("X"), N(1)), f2(N(2), N(3)),
       S1("g", N(1)), f1(N(1)), f1(V("X")), V("X") >>

\* The nodes an edge leads to from n: its arguments, or its binding.
Succs(h, n) ==
    {h[n].args[i] : i \in 1..h[n].arity}
        \cup (IF h[n].k = TM_VAR /\ h[n].ref # NULL THEN {h[n].ref} ELSE {})

RECURSIVE ReachFrom(_, _, _)
ReachFrom(h, frontier, seen) ==
    IF frontier = {} THEN seen
    ELSE LET nxt == UNION {Succs(h, n) : n \in frontier}
         IN  ReachFrom(h, nxt \ (seen \cup frontier), seen \cup frontier)

\* Every node reachable from the nodes of Sn, these included.
Reach(h, Sn) == ReachFrom(h, Sn, {})

\* No term contains itself.
Acyclic(h) == \A n \in 1..Len(h) : n \notin Reach(h, Succs(h, n))

\* The pool as parse_goal_list builds it on an empty heap.
PoolParsed == parse_query(<<>>, Query(Pool))

\* The goals handed to builtin_call: name(a, b) for two roots of the pool,
\* given by their places in the pool.
GoalSpecs ==
    << <<"=", 1, 2>>, <<"dif", 1, 2>>, <<"=", 3, 4>>, <<"dif", 3, 4>>,
       <<"=", 2, 2>>, <<"dif", 2, 2>>, <<"=", 2, 4>>, <<"dif", 2, 4>>,
       <<"=", 6, 5>>, <<"dif", 6, 5>>, <<"=", 8, 6>>, <<"dif", 8, 6>> >>

RECURSIVE BuildGoals(_, _, _, _)
\* t = mk_struct(name, 2); t->u.s.args.a[0] = a; t->u.s.args.a[1] = b;
BuildGoals(h, roots, k, acc) ==
    IF k > Len(GoalSpecs) THEN [h |-> h, goals |-> acc]
    ELSE LET g == GoalSpecs[k]
             node == [mk_struct_node(g[1], 2)
                         EXCEPT !.args = <<roots[g[2]], roots[g[3]]>>]
             r == Alloc(h, node)
         IN  BuildGoals(r.h, roots, k + 1, Append(acc, r.t))

\* The heap of the harness: the pool, then the goals built on its roots.
UnitGoals == BuildGoals(PoolParsed.h, PoolParsed.goals, 1, <<>>)

InitUnit ==
    /\ src = <<Query(Pool)>>
    /\ pos = 1
    /\ pc = "unit"
    /\ heap = UnitGoals.h
    /\ last_query = PoolParsed.goals
    /\ g_trail = <<>>
    /\ g_kb = <<>>
    /\ qvars = <<>>
    /\ g_solution_count = 0
    /\ stack = <<>>
    /\ out = <<>>
    /\ calls = 0
    /\ marks = <<>>
    /\ last = NoOp

\* m = trail_mark()
UnitMark ==
    /\ pc = "unit"
    /\ Len(marks) < MaxMarks
    /\ marks' = Append(marks, [m |-> trail_mark(g_trail), h |-> heap, tr |-> g_trail])
    /\ last' = [NoOp EXCEPT !.op = "mark", !.m = trail_mark(g_trail),
                            !.h0 = heap, !.tr0 = g_trail]
    /\ UNCHANGED <<src, pos, pc, heap, g_trail, g_kb, last_query, qvars,
                   g_solution_count, stack, out, calls>>

\* unify(a, b) on two terms of the pool
UnitUnify(a, b) ==
    /\ pc = "unit"
    /\ calls < MaxCalls
    /\ LET r == unify(heap, g_trail, a, b)
       IN  /\ heap' = r.h
           /\ g_trail' = r.tr
           /\ last' = [NoOp EXCEPT !.op = "unify", !.a = a, !.b = b, !.ok = r.ok,
                                   !.h0 = heap, !.tr0 = g_trail]
    /\ calls' = calls + 1
    /\ UNCHANGED <<src, pos, pc, g_kb, last_query, qvars, g_solution_count,
                   stack, out, marks>>

\* trail_unwind(m) for the k-th mark taken; the marks taken after it are dropped.
UnitUnwind(k) ==
    /\ pc = "unit"
    /\ LET w == trail_unwind(heap, g_trail, marks[k].m)
       IN  /\ heap' = w.h
           /\ g_trail' = w.tr
    /\ marks' = SubSeq(marks, 1, k)
    /\ last' = [NoOp EXCEPT !.op = "unwind", !.m = marks[k].m,
                            !.h0 = heap, !.tr0 = g_trail]
    /\ UNCHANGED <<src, pos, pc, g_kb, last_query, qvars, g_solution_count,
                   stack, out, calls>>

\* builtin_call(goal) on one of the goals built on the pool
UnitBuiltin(goal) ==
    /\ pc = "unit"
    /\ calls < MaxCalls
    /\ LET r == builtin_call(heap, g_trail, out, goal)
       IN  /\ heap' = r.h
           /\ g_trail' = r.tr
           /\ out' = r.out
           /\ last' = [NoOp EXCEPT !.op = "builtin", !.a = goal, !.ok = (r.r = 1),
                                   !.m = r.r, !.h0 = heap, !.tr0 = g_trail]
    /\ calls' = calls + 1
    /\ UNCHANGED <<src, pos, pc, g_kb, last_query, qvars, g_solution_count,
                   stack, marks>>

\* d = deref(t) on a node of the pool; last.b holds the pointer returned.
UnitDeref(t) ==
    /\ pc = "unit"
    /\ last' = [NoOp EXCEPT !.op = "deref", !.a = t, !.b = deref(heap, t),
                            !.h0 = heap, !.tr0 = g_trail]
    /\ UNCHANGED <<src, pos, pc, heap, g_trail, g_kb, last_query, qvars,
                   g_solution_count, stack, out, calls, marks>>

NextUnit ==
    \/ UnitMark
    \/ /\ Acyclic(heap)
       /\ \E i, j \in 1..Len(last_query) : UnitUnify(last_query[i], last_query[j])
    \/ /\ Acyclic(heap)
       /\ \E k \in 1..Len(UnitGoals.goals) : UnitBuiltin(UnitGoals.goals[k])
    \/ \E k \in 1..Len(marks) : UnitUnwind(k)

SpecUnit == InitUnit /\ [][NextUnit]_vars

(***************************************************************************)
(* trail_unwind called with any checkpoint: those of the trail's length or *)
(* below, and those above it.  marks records the calls made: the           *)
(* checkpoint, the heap and the trail at the call, and the number of unify *)
(* calls made before it.                                                   *)
(***************************************************************************)
TrailPairs == {<<1, 2>>, <<3, 4>>, <<8, 6>>, <<1, 3>>}

\* trail_unwind(m)
TrailUnwind(m) ==
    /\ pc = "unit"
    /\ Len(marks) < MaxMarks
    /\ LET w == trail_unwind(heap, g_trail, m)
       IN  /\ heap' = w.h
           /\ g_trail' = w.tr
    /\ marks' = Append(marks, [m |-> m, h |-> heap, tr |-> g_trail, c |-> calls])
    /\ last' = [NoOp EXCEPT !.op = "unwind_any", !.m = m,
                            !.h0 = heap, !.tr0 = g_trail]
    /\ UNCHANGED <<src, pos, pc, g_kb, last_query, qvars, g_solution_count,
                   stack, out, calls>>

NextTrail ==
    \/ /\ Acyclic(heap)
       /\ \E p \in TrailPairs : UnitUnify(last_query[p[1]], last_query[p[2]])
    \/ \E m \in 0..(Len(g_trail) + 2) : TrailUnwind(m)

SpecTrail == InitUnit /\ [][NextTrail]_vars

(***************************************************************************)
(* deref called on every node of the pool, between calls of unify that     *)
(* build chains of bindings.                                               *)
(***************************************************************************)
NextDeref ==
    \/ /\ Acyclic(heap)
       /\ \E i, j \in 1..Len(last_query) : UnitUnify(last_query[i], last_query[j])
    \/ \E t \in 1..Len(PoolParsed.h) : UnitDeref(t)

SpecDeref == InitUnit /\ [][NextDeref]_vars

(***************************************************************************)
(* Properties                                                              *)
(***************************************************************************)
IsPrefix(s, t) == Len(s) <= Len(t) /\ SubSeq(t, 1, Len(s)) = s

Range(s) == {s[i] : i \in 1..Len(s)}

Done == pc = "done"

\* The nodes of the stored clauses: what their heads and bodies reach through
\* argument lists.
ClauseRoots(kb) == UNION {{kb[c].head} \cup Range(kb[c].body) : c \in 1..Len(kb)}

RECURSIVE ArgReach(_, _, _)
ArgReach(h, frontier, seen) ==
    IF frontier = {} THEN seen
    ELSE LET nxt == UNION {{h[n].args[i] : i \in 1..h[n].arity} : n \in frontier}
         IN  ArgReach(h, nxt \ (seen \cup frontier), seen \cup frontier)

TemplateNodes == ArgReach(heap, ClauseRoots(g_kb), {})

TemplateVars == {n \in TemplateNodes : heap[n].k = TM_VAR}

\* The activations that stand inside the recursive call of a clause.
InClause == {d \in 1..Len(stack) : stack[d].pc = "callC"}

\* C1: with the parent/ancestor clauses, the query ancestor(A, carol) run to
\* exhaustion reports exactly two solutions, A = bob and then A = alice:
\* stdout only ever grows towards these two reports and holds exactly them,
\* with g_solution_count = 2, when main is done.
ExpectedCarol == <<"A = ", "bob", "\n", "A = ", "alice", "\n">>

C1_CarolTwoSolutionsInOrder ==
    src = ProgCarol =>
        /\ IsPrefix(out, ExpectedCarol)
        /\ Done => (out = ExpectedCarol /\ g_solution_count = 2)

C1_Witness == src = ProgCarol /\ Done /\ g_solution_count = 2

\* C2: with the same clauses, the query ancestor(A, nobody) never reaches the
\* empty goal list: g_solution_count stays 0, nothing is printed during the
\* search, and main ends with false. alone.
C2_NobodyNoSolution ==
    src = ProgNobody =>
        /\ g_solution_count = 0
        /\ ~Done => out = <<>>
        /\ Done => out = <<"false.\n">>

C2_Witness == src = ProgNobody /\ Done /\ Len(g_kb) = 5

\* C3: trail_unwind(m) restores the state at the mark m, whatever unify
\* calls, successful or failed, were made since: the trail is the trail at
\* the mark, of length m, and every node is as it was at the mark, so the
\* variables bound since are unbound (deref gives the variable itself) and
\* those bound before keep their binding.  And unify(f(A,B), f(1,2)) with A
\* and B unbound succeeds with A bound to 1 and B to 2, in this order on the
\* trail.
BoundSince(tr, m) == {tr[i] : i \in (m + 1)..Len(tr)}

PoolA == PoolParsed.h[PoolParsed.goals[1]].args[1]
PoolB == PoolParsed.h[PoolParsed.goals[1]].args[2]

C3_UnwindRestoresMark ==
    /\ last.op = "unwind" =>
          LET mk == marks[Len(marks)]
          IN  /\ mk.m = last.m
              /\ Len(g_trail) = mk.m
              /\ g_trail = mk.tr
              /\ heap = mk.h
              /\ \A v \in BoundSince(last.tr0, last.m) :
                    heap[v].ref = NULL /\ deref(heap, v) = v
              /\ \A v \in Range(mk.tr) : heap[v].ref = mk.h[v].ref /\ heap[v].ref # NULL
    /\ ( /\ last.op = "unify"
         /\ last.a = last_query[1]
         /\ last.b = last_query[2]
         /\ last.h0[PoolA].ref = NULL
         /\ last.h0[PoolB].ref = NULL )
       => /\ last.ok
          /\ heap[deref(heap, PoolA)].k = TM_NUM
          /\ heap[deref(heap, PoolA)].num = 1
          /\ heap[deref(heap, PoolB)].k = TM_NUM
          /\ heap[deref(heap, PoolB)].num = 2
          /\ g_trail = last.tr0 \o <<PoolA, PoolB>>

\* An unwind that kept an earlier binding and undid two later ones.
C3_Witness ==
    /\ last.op = "unwind"
    /\ last.m >= 1
    /\ Len(last.tr0) >= last.m + 2
    /\ Len(g_trail) = last.m

\* C4: every clause alternative of an activation starts from the same
\* binding state: whenever an activation stands at the head of its clause
\* loop, the trail is the trail of its first iteration, every node that
\* existed then is unchanged, and every node allocated since is unbound.
SameBindings(h0, h) ==
    /\ Len(h0) <= Len(h)
    /\ \A n \in 1..Len(h) :
          IF n <= Len(h0) THEN h[n] = h0[n] ELSE h[n].ref = NULL

C4_AlternativesSameState ==
    \A d \in 1..Len(stack) :
        stack[d].pc = "loop" =>
            /\ d = Len(stack)
            /\ g_trail = stack[d].e_trail
            /\ SameBindings(stack[d].e_heap, heap)

\* At the loop head again after an alternative whose sub-search reported a
\* solution, with a bound variable at the first iteration.
C4_Witness ==
    /\ Running
    /\ Top.pc = "loop"
    /\ Top.i >= 1
    /\ Len(heap) > Len(Top.e_heap)
    /\ g_solution_count > Top.e_count
    /\ Len(Top.e_trail) >= 1

\* C5: there is no cut.  An activation leaves its clause loop only at
\* i = g_kb.n, also after alternatives that reported solutions, and no step
\* moves i past a clause; so every successful branch is reported: six
\* solutions for p(X), p(Y), dif(X,Y) over three p-alternatives, two for the
\* second query of ProgTwoQueries, one for ProgAnon.
C5_Step ==
    \A d \in 1..Len(stack) :
        stack[d].pc \in {"loop", "callC"} =>
            IF Len(stack') < d
            THEN stack[d].pc = "loop" /\ stack[d].i = Len(g_kb)
            ELSE /\ stack'[d].i \in {stack[d].i, stack[d].i + 1}
                 /\ stack'[d].i <= Len(g_kb)

C5_Counts ==
    Done =>
        /\ src = ProgPairs => g_solution_count = 6
        /\ src = ProgTwoQueries => g_solution_count = 2
        /\ src = ProgAnon => g_solution_count = 1

C5_NoCut == [][C5_Step /\ C5_Counts']_vars

\* At the loop head after an alternative that reported a solution, with a
\* further clause that passes the filter still to be tried.
C5_Witness ==
    /\ Running
    /\ Top.pc = "loop"
    /\ g_solution_count > Top.e_count
    /\ Top.i < Len(g_kb)
    /\ ~filter_skips(heap, Top.goals[1], g_kb[Top.i + 1].head)

\* C6: clauses are tried from index 0 upward, one index per iteration; the
\* goal list of the recursive call is the copied body, goal for goal in
\* clause order, followed by the caller's remaining goals; after a built-in
\* it is the caller's remaining goals.  Solutions therefore come out in
\* depth-first, first-clause-first order.
SameFunctor(h, t, c) ==
    /\ h[t].k = h[c].k
    /\ h[t].name = h[c].name
    /\ h[t].arity = h[c].arity
    /\ h[t].num = h[c].num

C6_Goals ==
    \A d \in 1..(Len(stack) - 1) :
        LET f == stack[d]
            g == stack[d + 1]
        IN  /\ f.pc \in {"callB", "callC"}
            /\ f.pc = "callB" => g.goals = RestGoals(f.goals)
            /\ f.pc = "callC" =>
                  LET cl == g_kb[f.i + 1]
                  IN  /\ Len(f.B) = Len(cl.body)
                      /\ \A j \in 1..Len(cl.body) :
                            SameFunctor(heap, cl.body[j], f.B[j])
                      /\ Len(g.goals) = Len(cl.body) + Len(f.goals) - 1
                      /\ SubSeq(g.goals, 1, Len(f.B)) = f.B
                      /\ SubSeq(g.goals, Len(f.B) + 1, Len(g.goals))
                            = RestGoals(f.goals)

C6_Index ==
    \A d \in 1..Len(stack) :
        /\ (stack[d].pc = "entry" /\ Len(stack') >= d /\ stack'[d].pc = "loop")
              => stack'[d].i = 0
        /\ (stack[d].pc = "loop" /\ Len(stack') >= d /\ stack'[d].pc = "loop")
              => stack'[d].i = stack[d].i + 1
        /\ (stack[d].pc = "loop" /\ Len(stack') >= d /\ stack'[d].pc = "callC")
              => stack'[d].i = stack[d].i
        /\ (stack[d].pc = "callC" /\ stack'[d].pc = "loop")
              => stack'[d].i = stack[d].i + 1

ExpectedPairs ==
    "X = a, Y = b\nX = a, Y = c\nX = b, Y = a\nX = b, Y = c\nX = c, Y = a\nX = c, Y = b\n"

C6_Output ==
    Done =>
        /\ src = ProgPairs => Stdout = ExpectedPairs
        /\ src = ProgDemo => Stdout = "A=bob\nA = bob\nA=alice\nA = alice\n"

C6_ClauseAndGoalOrder == [][C6_Index /\ C6_Goals' /\ C6_Output']_vars

\* Inside the second clause of ancestor (index >= 1), two body goals put
\* before the remaining goals of the query.
C6_Witness ==
    \E d \in InClause :
        /\ stack[d].i >= 1
        /\ Len(stack[d].B) >= 2
        /\ Len(stack[d].goals) >= 2

\* C7: the built-in check precedes the clause database.  An activation whose
\* first goal dereferences to true/0, fail/0, nl/0, write/1, =/2 or dif/2
\* never enters the clause loop: no clause is copied for it and it either
\* returns or continues with the remaining goals.  So the user clauses
\* fail., true :- fail., write(X) :- fail., nl :- fail. and dif(X, Y). change
\* nothing: true, write and nl succeed once, fail fails, dif(Q, 1) fails.
BuiltinTable ==
    { <<"true", 0>>, <<"fail", 0>>, <<"nl", 0>>, <<"write", 1>>, <<"=", 2>>,
      <<"dif", 2>> }

IsBuiltinGoal(h, g0) ==
    LET g == deref(h, g0)
    IN  h[g].k = TM_STRUC /\ <<h[g].name, h[g].arity>> \in BuiltinTable

\* Some stored clause has the name and arity of the goal.
HasUserClause(h, g0) ==
    LET g == deref(h, g0)
    IN  \E c \in 1..Len(g_kb) :
            /\ h[g_kb[c].head].k = TM_STRUC
            /\ h[g_kb[c].head].name = h[g].name
            /\ h[g_kb[c].head].arity = h[g].arity

C7_Step ==
    (Running /\ Top.pc = "entry" /\ Len(Top.goals) > 0
        /\ IsBuiltinGoal(heap, Top.goals[1]))
    => /\ Len(heap') = Len(heap)
       /\ \/ stack' = Pop(stack)
          \/ /\ Len(stack') = Len(stack) + 1
             /\ stack'[Len(stack)].pc = "callB"
             /\ stack'[Len(stack)].i = 0

C7_State ==
    /\ \A d \in 1..Len(stack) :
          /\ stack[d].pc = "loop" => ~IsBuiltinGoal(heap, stack[d].goals[1])
          /\ stack[d].pc = "callB" => stack[d].e_heap = <<>> /\ stack[d].M = VMapEmpty
    /\ Done =>
          /\ src = ProgShadow => g_solution_count = 0 /\ Stdout = "p(Q)\nfalse.\n"
          /\ src = ProgShadowDif => g_solution_count = 0 /\ Stdout = "false.\n"

C7_BuiltinsBeforeClauses == [][C7_Step /\ C7_State']_vars

\* The goal fail is at hand with the user fact fail. in the knowledge base.
C7_Witness ==
    /\ Running
    /\ Top.pc = "entry"
    /\ Len(Top.goals) > 0
    /\ is_atom(heap, Top.goals[1], "fail", 0)
    /\ HasUserClause(heap, Top.goals[1])

\* C8: the fresh variables of two clause activations are disjoint, and none
\* is a variable of a stored clause; every fresh variable was allocated
\* after the activation reached its clause loop.  The variables of the stored
\* clauses stay unbound.  So binding a variable of one copy cannot bind the
\* corresponding variable of another copy or of the template.
C8_CopiesIndependent ==
    /\ \A d \in InClause :
          /\ Range(stack[d].M.to) \cap TemplateNodes = {}
          /\ \A v \in Range(stack[d].M.to) :
                /\ v > Len(stack[d].e_heap)
                /\ heap[v].k = TM_VAR
          /\ \A e \in InClause :
                d # e => Range(stack[d].M.to) \cap Range(stack[e].M.to) = {}
    /\ \A v \in TemplateVars : heap[v].ref = NULL

\* Two activations of the same clause, one inside the other: a variable of
\* the outer copy is bound while the corresponding one of the inner copy is
\* not.
C8_Witness ==
    \E d, e \in InClause :
        /\ d < e
        /\ stack[d].i = stack[e].i
        /\ \E k \in 1..Len(stack[d].M.to) :
              /\ k <= Len(stack[e].M.to)
              /\ stack[d].M.from[k] = stack[e].M.from[k]
              /\ heap[stack[d].M.to[k]].ref # NULL
              /\ heap[stack[e].M.to[k]].ref = NULL

\* C9: within one activation the copy of the clause is the clause up to a
\* one-to-one renaming of its variables: the map pairs each variable of the
\* clause with one fresh variable of the same name, no two with the same
\* one, and the copied head and body goals agree with the stored ones node
\* for node (kind, number, name, arity, argument order), a variable being
\* replaced by its image under the map at every occurrence.
OneToOne(M) ==
    /\ Len(M.from) = Len(M.to)
    /\ \A k, l \in 1..Len(M.from) :
          k # l => M.from[k] # M.from[l] /\ M.to[k] # M.to[l]

RECURSIVE Renamed(_, _, _, _)
\* c is t with every variable replaced by its image under M.
Renamed(h, M, t, c) ==
    /\ h[t].k = h[c].k
    /\ h[t].name = h[c].name
    /\ h[t].num = h[c].num
    /\ h[t].arity = h[c].arity
    /\ Len(h[c].args) = h[t].arity
    /\ IF h[t].k = TM_VAR
       THEN \E k \in 1..Len(M.from) : M.from[k] = t /\ M.to[k] = c
       ELSE t # c
    /\ \A i \in 1..h[t].arity : Renamed(h, M, h[t].args[i], h[c].args[i])

\* The variables of a stored clause.
ClauseVars(h, cl) ==
    {n \in ArgReach(h, {cl.head} \cup Range(cl.body), {}) : h[n].k = TM_VAR}

C9_CopyIsRenaming ==
    \A d \in InClause :
        LET f == stack[d]
            cl == g_kb[f.i + 1]
        IN  /\ OneToOne(f.M)
            /\ Range(f.M.from) = ClauseVars(heap, cl)
            /\ Renamed(heap, f.M, cl.head, f.Hcopy)
            /\ Len(f.B) = Len(cl.body)
            /\ \A j \in 1..Len(cl.body) : Renamed(heap, f.M, cl.body[j], f.B[j])

\* Inside ancestor(X,Y) :- parent(X,Z), ancestor(Z,Y): three variables, each
\* occurring twice, one of them in the body only.
C9_Witness ==
    \E d \in InClause :
        /\ Len(stack[d].M.from) = 3
        /\ Len(stack[d].B) = 2
        /\ stack[d].M.from[3] \notin ArgReach(heap, {g_kb[stack[d].i + 1].head}, {})

\* C10: the clause database is read-only during resolution.  From the call
\* of solve on, no step changes g_kb (the number and order of the clauses,
\* their head and body terms) or any node of a stored clause; no variable of
\* a stored clause is ever bound, and none is ever on the trail.
C10_Step ==
    pc = "solve" =>
        /\ g_kb' = g_kb
        /\ Len(heap') >= Len(heap)
        /\ \A n \in TemplateNodes : heap'[n] = heap[n]

C10_State ==
    pc \in {"solve", "done"} =>
        /\ \A v \in TemplateVars : heap[v].ref = NULL
        /\ Range(g_trail) \cap TemplateNodes = {}

C10_KnowledgeBaseReadOnly == [][C10_Step /\ C10_State']_vars

\* A query that bound variables of clause copies and reported a solution,
\* with the five clauses still in place.
C10_Witness ==
    /\ pc = "solve"
    /\ Len(g_kb) >= 5
    /\ TemplateVars # {}
    /\ g_solution_count >= 1
    /\ Len(g_trail) >= 2

\* C11: unify never removes a binding or a trail entry: whether it returns
\* true or false, the trail on return extends the trail at the call, every
\* variable bound at the call keeps its binding, and each entry added is a
\* variable that was unbound at the call and is bound now.  When unify of
\* two compounds of one name and arity fails at an argument, what the earlier
\* arguments bound is in place and on the trail: unify(f(X,1), f(2,3)) with
\* X unbound returns false, X is bound to 2 and is the one entry added.
RECURSIVE ArgStates(_, _, _, _, _)
\* The states before each argument of the argument loop, up to and including
\* the one before the argument that failed.
ArgStates(h, tr, a, b, i) ==
    IF i > h[a].arity THEN <<[h |-> h, tr |-> tr]>>
    ELSE LET r == unify(h, tr, h[a].args[i], h[b].args[i])
         IN  <<[h |-> h, tr |-> tr]>>
                 \o (IF r.ok THEN ArgStates(r.h, r.tr, a, b, i + 1) ELSE <<>>)

PoolX == PoolParsed.h[PoolParsed.goals[3]].args[1]

C11_Extends(h0, tr0) ==
    /\ IsPrefix(tr0, g_trail)
    /\ \A n \in 1..Len(h0) :
          (h0[n].k = TM_VAR /\ h0[n].ref # NULL) => heap[n].ref = h0[n].ref
    /\ \A j \in (Len(tr0) + 1)..Len(g_trail) :
          /\ h0[g_trail[j]].k = TM_VAR
          /\ h0[g_trail[j]].ref = NULL
          /\ heap[g_trail[j]].ref # NULL

C11_UnifyKeepsBindings ==
    last.op = "unify" =>
        /\ C11_Extends(last.h0, last.tr0)
        /\ LET a == deref(last.h0, last.a)
               b == deref(last.h0, last.b)
           IN  ( /\ ~last.ok
                 /\ a # b
                 /\ last.h0[a].k = TM_STRUC /\ last.h0[b].k = TM_STRUC
                 /\ last.h0[a].name = last.h0[b].name
                 /\ last.h0[a].arity = last.h0[b].arity )
               => LET sts == ArgStates(last.h0, last.tr0, a, b, 1)
                  IN  /\ Len(sts) <= last.h0[a].arity
                      /\ \A j \in 1..Len(sts) : C11_Extends(sts[j].h, sts[j].tr)
        /\ ( /\ last.a = last_query[3]
             /\ last.b = last_query[4]
             /\ last.h0[PoolX].ref = NULL )
           => /\ ~last.ok
              /\ heap[PoolX].ref # NULL
              /\ heap[deref(heap, PoolX)].k = TM_NUM
              /\ heap[deref(heap, PoolX)].num = 2
              /\ g_trail = Append(last.tr0, PoolX)

\* unify(f(X,1), f(2,3)) has just failed, after an earlier binding, leaving
\* X bound to 2.
C11_Witness ==
    /\ last.op = "unify"
    /\ ~last.ok
    /\ last.a = last_query[3]
    /\ last.b = last_query[4]
    /\ last.tr0 # <<>>
    /\ Len(g_trail) = Len(last.tr0) + 1

\* C12: unify of two compounds whose names differ, or whose arities differ,
\* returns false, binds no variable and leaves the trail as it was:
\* unify(f(1), g(1)) is false, and unify(f(X), f(1,2)) is false with X as
\* unbound as before.
C12_Mismatch(h, a0, b0) ==
    LET a == deref(h, a0)
        b == deref(h, b0)
    IN  /\ h[a].k = TM_STRUC
        /\ h[b].k = TM_STRUC
        /\ h[a].name # h[b].name \/ h[a].arity # h[b].arity

C12_MismatchFailsCleanly ==
    last.op = "unify" =>
        /\ C12_Mismatch(last.h0, last.a, last.b)
               => ~last.ok /\ heap = last.h0 /\ g_trail = last.tr0
        /\ (last.a = last_query[6] /\ last.b = last_query[5])
               => ~last.ok /\ heap = last.h0 /\ g_trail = last.tr0
        /\ (last.a = last_query[7] /\ last.b = last_query[2] /\ last.h0[PoolX].ref = NULL)
               => ~last.ok /\ heap[PoolX].ref = NULL /\ g_trail = last.tr0

\* unify(f(X), f(1,2)) has just returned false with X unbound, another
\* variable having been bound before the call.
C12_Witness ==
    /\ last.op = "unify"
    /\ last.a = last_query[7]
    /\ last.b = last_query[2]
    /\ last.tr0 # <<>>
    /\ heap[PoolX].ref = NULL
    /\ ~last.ok

\* C13: for acyclic terms a and b, if unify(a, b) returns true then under
\* the bindings it leaves the two terms are structurally identical: at every
\* pair of corresponding positions the dereferenced nodes are the same node,
\* or two numbers of one value, or two compounds of one name and arity whose
\* arguments correspond in turn; an unbound variable corresponds only to
\* itself.  If it returns false, some pair of corresponding dereferenced
\* subterms clashes: two numbers of different value, two compounds of
\* different name or arity, or a number against a compound.
RECURSIVE Diffs(_, _, _)
\* What tells the terms of the pairs in todo apart under the bindings of h:
\* "clash" for a clash, "open" for an unbound variable against another node.
\* The pairs in seen are being compared already.
Diffs(h, todo, seen) ==
    IF todo = {} THEN {}
    ELSE LET p == CHOOSE q \in todo : TRUE
             a == deref(h, p[1])
             b == deref(h, p[2])
             rest == todo \ {p}
         IN  IF a = b \/ <<a, b>> \in seen THEN Diffs(h, rest, seen)
             ELSE IF h[a].k = TM_VAR \/ h[b].k = TM_VAR
                 THEN {"open"} \cup Diffs(h, rest, seen)
             ELSE IF h[a].k = TM_NUM /\ h[b].k = TM_NUM
                 THEN (IF h[a].num = h[b].num THEN {} ELSE {"clash"})
                          \cup Diffs(h, rest, seen)
             ELSE IF /\ h[a].k = TM_STRUC /\ h[b].k = TM_STRUC
                     /\ h[a].name = h[b].name /\ h[a].arity = h[b].arity
                 THEN Diffs(h,
                            rest \cup {<<h[a].args[i], h[b].args[i]>> : i \in 1..h[a].arity},
                            seen \cup {<<a, b>>})
             ELSE {"clash"} \cup Diffs(h, rest, seen)

C13_UnifySound ==
    (last.op = "unify" /\ Acyclic(last.h0)) =>
        LET D == Diffs(heap, {<<last.a, last.b>>}, {})
        IN  /\ last.ok => D = {}
            /\ ~last.ok => "clash" \in D

\* unify(f(A,B), f(X,1)) has succeeded as the second call, binding two
\* variables and leaving an unbound variable at the first argument of both.
C13_Witness ==
    /\ last.op = "unify"
    /\ last.ok
    /\ last.a = last_query[1]
    /\ last.b = last_query[3]
    /\ calls = 2
    /\ Len(g_trail) = Len(last.tr0) + 2
    /\ heap[deref(heap, PoolA)].k = TM_VAR

\* C14: unify is reflexive on ground terms: for a term t with no unbound
\* variable in it, unify(t, t) returns true, and the trail after the call is
\* the trail before it, no binding having been made.
Ground(h, t) ==
    \A n \in Reach(h, {t}) : h[n].k = TM_VAR => h[n].ref # NULL

C14_UnifyReflexive ==
    (last.op = "unify" /\ last.a = last.b /\ Ground(last.h0, last.a)) =>
        /\ last.ok
        /\ Len(g_trail) = Len(last.tr0)
        /\ g_trail = last.tr0
        /\ heap = last.h0

\* unify(t, t) has returned for t = f(A,B), made ground by an earlier
\* unification with f(1,2).
C14_Witness ==
    /\ last.op = "unify"
    /\ last.a = last_query[1]
    /\ last.b = last_query[1]
    /\ Len(last.tr0) = 2
    /\ Ground(last.h0, last.a)
    /\ last.ok

\* C15: a variable's binding slot is written in two ways only: a call of
\* unify sets the slot of an unbound variable (a dereferenced one, hence
\* unbound) and puts the variable on the trail, and trail_unwind resets to
\* unbound the slot of a variable it takes off the trail.  No step replaces
\* the binding of a bound variable by another binding, and no step changes
\* the kind of a node, a number's value, or a compound's name, arity or
\* arguments.
C15_Step ==
    /\ Len(heap') >= Len(heap)
    /\ \A n \in 1..Len(heap) :
          /\ [heap'[n] EXCEPT !.ref = heap[n].ref] = heap[n]
          /\ heap'[n].ref # heap[n].ref =>
                /\ heap[n].k = TM_VAR
                /\ \/ /\ heap[n].ref = NULL
                      /\ deref(heap, n) = n
                      /\ last'.op \in {"unify", "builtin"}
                      /\ n \in BoundSince(g_trail', Len(g_trail))
                   \/ /\ heap'[n].ref = NULL
                      /\ last'.op = "unwind"
                      /\ n \in BoundSince(g_trail, Len(g_trail'))

C15_BindingSlotWrites == [][C15_Step]_vars

\* unify was called on a variable that was bound already, and bound other
\* variables through it.
C15_Witness ==
    /\ last.op = "unify"
    /\ last.ok
    /\ last.h0[last.a].k = TM_VAR
    /\ last.h0[last.a].ref # NULL
    /\ Len(g_trail) > Len(last.tr0)
    /\ heap[last.a].ref = last.h0[last.a].ref

\* C16: trail_push is called once for each binding unify makes, so in every
\* reachable state the trail lists the bound variables, each once: a
\* variable is bound if and only if it is on the trail.  The entries are in
\* binding order: a step only appends entries to the trail or removes
\* entries from its end.
BoundVars(h) == {n \in 1..Len(h) : h[n].k = TM_VAR /\ h[n].ref # NULL}

C16_State ==
    /\ Range(g_trail) = BoundVars(heap)
    /\ \A i, j \in 1..Len(g_trail) : g_trail[i] = g_trail[j] => i = j
    /\ Cardinality(BoundVars(heap)) = Len(g_trail)

C16_Step == IsPrefix(g_trail, g_trail') \/ IsPrefix(g_trail', g_trail)

C16_TrailListsBoundVars == [][C16_Step /\ C16_State']_vars

\* The search is three clause activations deep with bindings on the trail,
\* unbound variables beside them.
C16_Witness ==
    /\ Running
    /\ Len(stack) >= 4
    /\ Len(g_trail) >= 3
    /\ \E n \in 1..Len(heap) :
          heap[n].k = TM_VAR /\ heap[n].ref = NULL /\ n \notin TemplateVars

\* C17: the built-in =(a, b) succeeds if and only if unify(a, b) succeeds.
\* When it fails, every binding the attempt made is undone: the trail and
\* all bindings are as they were before the goal was called.  When it
\* succeeds, the bindings unify made are left in force, on the trail, for
\* the goals that follow.
GoalArg(i) == last.h0[deref(last.h0, last.a)].args[i]

C17_EqIsUnify ==
    (last.op = "builtin" /\ is_atom(last.h0, last.a, "=", 2)) =>
        LET u == unify(last.h0, last.tr0, GoalArg(1), GoalArg(2))
        IN  /\ last.m \in {0, 1}
            /\ last.ok <=> u.ok
            /\ ~last.ok => heap = last.h0 /\ g_trail = last.tr0
            /\ last.ok =>
                  /\ heap = u.h
                  /\ g_trail = u.tr
                  /\ IsPrefix(last.tr0, g_trail)
                  /\ Diffs(heap, {<<GoalArg(1), GoalArg(2)>>}, {}) = {}

\* =(f(X,1), f(2,3)) has just failed after an earlier binding; X, bound to 2
\* during the attempt, is unbound again.
C17_Witness ==
    /\ last.op = "builtin"
    /\ last.a = UnitGoals.goals[3]
    /\ ~last.ok
    /\ last.tr0 # <<>>
    /\ last.h0[PoolX].ref = NULL
    /\ unify(last.h0, last.tr0, GoalArg(1), GoalArg(2)).h[PoolX].ref # NULL
    /\ heap[PoolX].ref = NULL

\* C18: the built-in dif(a, b) succeeds if and only if unify(a, b) fails,
\* and whether it succeeds or fails it leaves the trail and the binding of
\* every variable as they were before the goal was called.
C18_DifLeavesNoBinding ==
    (last.op = "builtin" /\ is_atom(last.h0, last.a, "dif", 2)) =>
        LET u == unify(last.h0, last.tr0, GoalArg(1), GoalArg(2))
        IN  /\ last.m \in {0, 1}
            /\ last.ok <=> ~u.ok
            /\ heap = last.h0
            /\ g_trail = last.tr0
            /\ BoundVars(heap) = BoundVars(last.h0)

\* dif(f(A,B), f(1,2)) has just failed with A and B unbound as before, a
\* binding made before the call still in place.
C18_Witness ==
    /\ last.op = "builtin"
    /\ last.a = UnitGoals.goals[2]
    /\ ~last.ok
    /\ last.tr0 # <<>>
    /\ heap[PoolA].ref = NULL
    /\ heap[PoolB].ref = NULL
    /\ Len(unify(last.h0, last.tr0, GoalArg(1), GoalArg(2)).tr) = Len(last.tr0) + 2

\* C19: =(a, b) and dif(a, b) are complementary on ground terms: called from
\* one binding state on two terms without unbound variables, exactly one of
\* the two goals succeeds, = where the two terms are identical and dif where
\* they are not, and neither changes a binding.
GoalName(h, g) == h[deref(h, g)].name

Sibling(h, g) ==
    CHOOSE s \in Range(UnitGoals.goals) :
        /\ h[s].args = h[g].args
        /\ h[s].name # h[g].name

C19_Step ==
    ( /\ last'.op = "builtin"
      /\ GoalName(heap, last'.a) \in {"=", "dif"}
      /\ Ground(heap, heap[last'.a].args[1])
      /\ Ground(heap, heap[last'.a].args[2]) )
    => LET o == builtin_call(heap, g_trail, out, Sibling(heap, last'.a))
           same == Diffs(heap, {<<heap[last'.a].args[1], heap[last'.a].args[2]>>}, {}) = {}
           eq_ok == IF GoalName(heap, last'.a) = "=" THEN last'.ok ELSE o.r = 1
           dif_ok == IF GoalName(heap, last'.a) = "dif" THEN last'.ok ELSE o.r = 1
       IN  /\ o.r \in {0, 1}
           /\ eq_ok # dif_ok
           /\ eq_ok <=> same
           /\ heap' = heap /\ g_trail' = g_trail
           /\ o.h = heap /\ o.tr = g_trail

C19_EqDifComplementary == [][C19_Step]_vars

\* =(f(A,B), f(1,2)) has succeeded with A bound to 1 and B to 2 beforehand:
\* two ground terms, equal but built of different nodes.
C19_Witness ==
    /\ last.op = "builtin"
    /\ last.a = UnitGoals.goals[1]
    /\ Ground(last.h0, last_query[1])
    /\ Ground(last.h0, last_query[2])
    /\ Len(last.tr0) = 2
    /\ last.ok
    /\ g_trail = last.tr0

\* C20: output is not undone by backtracking.  No step removes or changes
\* what was printed: stdout only grows, and a step that shortens the trail
\* prints nothing and removes nothing.  A write or nl goal at the head of
\* the goal list emits its text once, at the step that reaches it, each time
\* the search reaches it.  The query write(hello), fail run to exhaustion
\* prints hello once and reports no solution; p(X), write(X), nl, fail over
\* p(a). p(b). prints a and b, one line each, and reports no solution.
Occurrences(chunks, c) == Cardinality({i \in 1..Len(chunks) : chunks[i] = c})

C20_Step ==
    /\ IsPrefix(out, out')
    /\ Len(g_trail') < Len(g_trail) => out' = out
    /\ (Running /\ Top.pc = "entry" /\ Len(Top.goals) > 0) =>
          LET G == deref(heap, Top.goals[1])
          IN  /\ is_atom(heap, G, "write", 1) =>
                    /\ out' = out \o print_term(heap, heap[G].args[1])
                    /\ Len(out') > Len(out)
              /\ is_atom(heap, G, "nl", 0) => out' = Append(out, "\n")
              /\ (is_atom(heap, G, "fail", 0) \/ is_atom(heap, G, "dif", 2)) => out' = out

C20_State ==
    /\ src = ProgWriteFail =>
          /\ Occurrences(out, "hello") <= 1
          /\ g_solution_count = 0
          /\ Done => Occurrences(out, "hello") = 1 /\ Stdout = "hellofalse.\n"
    /\ src = ProgWriteBacktrack =>
          /\ IsPrefix(out, <<"a", "\n", "b", "\n", "false.\n">>)
          /\ g_solution_count = 0
          /\ Done => Stdout = "a\nb\nfalse.\n"

C20_OutputSurvivesBacktracking == [][C20_Step /\ C20_State']_vars

\* The second alternative of p(X) has printed b after the first printed a,
\* failed and was unwound: X is bound again, the first line still there.
C20_Witness ==
    /\ src = ProgWriteBacktrack
    /\ Running
    /\ Top.pc = "entry"
    /\ Len(Top.goals) > 0
    /\ is_atom(heap, Top.goals[1], "fail", 0)
    /\ out = <<"a", "\n", "b", "\n">>
    /\ g_trail # <<>>

\* C21: solutions are streamed.  The step that finds the goal list empty
\* appends the solution's report to stdout, counts it and returns, before
\* any further alternative is explored; as stdout only grows, the report of
\* a solution stands before every write/nl effect and every report of the
\* alternatives explored after it.  With p(a). p(2). and the query
\* p(Y), write(Y), nl the report Y = a precedes the 2 written by the second
\* alternative.
AtEmptyGoals == Running /\ Top.pc = "entry" /\ Len(Top.goals) = 0

TwoQueriesOut == <<"a", "\n", "Y = ", "a", "\n", "2", "\n", "Y = ", "2", "\n">>

C21_Step ==
    /\ IsPrefix(out, out')
    /\ AtEmptyGoals =>
          /\ g_solution_count' = g_solution_count + 1
          /\ Len(out') > Len(out)
          /\ out' = out \o print_solution(heap, qvars)
          /\ heap' = heap /\ g_trail' = g_trail
          /\ stack' = Pop(stack)

C21_State ==
    src = ProgTwoQueries =>
        /\ IsPrefix(out, TwoQueriesOut)
        /\ (pc = "solve" /\ g_solution_count = 0) => Len(out) <= 2
        /\ (pc = "solve" /\ g_solution_count = 1) => Len(out) \in 5..7
        /\ g_solution_count = 2 => out = TwoQueriesOut

C21_SolutionsStreamed == [][C21_Step /\ C21_State']_vars

\* The second alternative has written 2 after the first solution's report.
C21_Witness ==
    /\ src = ProgTwoQueries
    /\ Running
    /\ g_solution_count = 1
    /\ out = SubSeq(TwoQueriesOut, 1, 7)

\* C22: each reported solution lists the distinct variables of the original
\* query whose name does not start with '_', each once, each with its value
\* under the bindings in force when the goal list became empty.  Variables
\* introduced by clause renaming and the query's anonymous variables are
\* never listed; a query without a named variable is reported as true.
QueryVars == {n \in ArgReach(heap, Range(last_query), {}) : heap[n].k = TM_VAR}

NamedQueryVars == {n \in QueryVars : ~IsAnonName(heap[n].name)}

NameChunks == {heap[n].name \o " = " : n \in {m \in 1..Len(heap) : heap[m].k = TM_VAR}}

\* The report lists v at chunk i: its name, then its value as print_term
\* gives it under the bindings of h.
ListsAt(rep, i, h, v) ==
    LET val == print_term(h, v)
    IN  /\ rep[i] = h[v].name \o " = "
        /\ i + Len(val) <= Len(rep)
        /\ SubSeq(rep, i + 1, i + Len(val)) = val

C22_State ==
    pc \in {"solve", "done"} =>
        /\ Range(qvars) = NamedQueryVars
        /\ Len(qvars) = Cardinality(NamedQueryVars)
        /\ Range(qvars) \cap TemplateNodes = {}
        /\ \A d \in 1..Len(stack) : Range(qvars) \cap Range(stack[d].M.to) = {}

C22_Step ==
    AtEmptyGoals =>
        LET rep == SubSeq(out', Len(out) + 1, Len(out'))
            listed == {i \in 1..Len(rep) : rep[i] \in NameChunks}
        IN  IF NamedQueryVars = {} THEN rep = <<"true\n">>
            ELSE /\ Cardinality(listed) = Cardinality(NamedQueryVars)
                 /\ \A v \in NamedQueryVars :
                       Cardinality({i \in listed : ListsAt(rep, i, heap, v)}) = 1
                 /\ rep[Len(rep)] = "\n"

C22_SolutionListsQueryVars == [][C22_Step /\ C22_State']_vars

\* A solution of r(U, _G), p(U, W) has been reported: U and W are listed,
\* _G and the two clauses' variables are not.
C22_Witness ==
    /\ src = ProgAnon
    /\ g_solution_count = 1
    /\ Cardinality(QueryVars) = 3
    /\ Len(qvars) = 2
    /\ out = <<"U = ", "a", ", ", "W = ", "a", "\n">>

\* C23: after the search is exhausted main prints false. if and only if the
\* empty goal list was never reached.  g_solution_count is the number of
\* times solve was entered with an empty goal list: it starts at 0, each
\* step out of an activation with an empty goal list adds one, no other step
\* of the search changes it; false. is printed only by main after solve
\* returned, and only when the count is 0.
C23_Step ==
    /\ (pc = "parse" /\ pc' = "solve") => g_solution_count' = 0
    /\ AtEmptyGoals => g_solution_count' = g_solution_count + 1 /\ ~AtEmptyGoals'
    /\ (pc = "solve" /\ ~AtEmptyGoals) => g_solution_count' = g_solution_count
    /\ (pc = "solve" /\ pc' = "done") =>
          /\ Len(stack) = 0
          /\ g_solution_count = 0 => out' = Append(out, "false.\n")
          /\ g_solution_count # 0 => out' = out

C23_State ==
    /\ ~Done => Occurrences(out, "false.\n") = 0
    /\ Done =>
          /\ g_solution_count = 0 <=> Occurrences(out, "false.\n") = 1
          /\ g_solution_count # 0 <=> Occurrences(out, "false.\n") = 0
          /\ g_solution_count = 0 => out[Len(out)] = "false.\n"
    /\ Done =>
          /\ src \in {ProgNobody, ProgWriteFail, ProgShadow, ProgShadowDif,
                      ProgWriteBacktrack} => g_solution_count = 0
          /\ src = ProgCarol => g_solution_count = 2
          /\ src = ProgNoQuery => g_solution_count = 1

C23_FalseIffNoSolution == [][C23_Step /\ C23_State']_vars

\* main has printed false. after a search that printed a line, tried a
\* clause and never emptied the goal list.
C23_Witness ==
    /\ Done
    /\ src = ProgShadow
    /\ g_solution_count = 0
    /\ out = <<"p", "(", "Q", ")", "\n", "false.\n">>

\* C24: the clause pre-filter.  For a goal that dereferences to a compound
\* of name n and arity k, the clauses attempted (renamed and unified) are
\* those whose head is a compound of name n and arity k, together with every
\* clause whose head is a variable; the other clauses are passed over.
AtClause == Running /\ Top.pc = "loop" /\ Top.i < Len(g_kb)

\* The iteration renamed the clause: copy_term allocated the copy of its head.
Attempted == Len(heap') > Len(heap)

HeadMatches(h, G, H) ==
    /\ h[H].k = TM_STRUC
    /\ h[H].name = h[deref(h, G)].name
    /\ h[H].arity = h[deref(h, G)].arity

C24_Step ==
    (AtClause /\ heap[deref(heap, Top.goals[1])].k = TM_STRUC) =>
        LET H == g_kb[Top.i + 1].head
        IN  Attempted <=> (HeadMatches(heap, Top.goals[1], H) \/ heap[H].k = TM_VAR)

C24_FilterAdmitsVarHeads == [][C24_Step]_vars

\* C25: the clause pre-filter is a pure optimization.  For every knowledge
\* base and query the search with the functor/arity/kind filter reports the
\* same solutions in the same order, and emits the same write/nl output, as
\* the search with the filter removed, every clause being renamed and passed
\* to unify; goals that are unbound variables and clauses whose head is a
\* variable included.  (Stated over the shorter sources.)
C25_Sources ==
    {ProgWriteFail, ProgShadow, ProgShadowDif, ProgWriteBacktrack, ProgNoQuery,
     ProgTwoQueries, ProgAnon, ProgVarHead, ProgVarGoal}

C25_FilterIsOptimization ==
    (Done /\ src \in C25_Sources) =>
        LET ref == main_run(FALSE, heap)
        IN  /\ out = ref.o
            /\ g_solution_count = ref.n

\* The same, over the sources in which every goal reached is a compound and
\* every clause head a compound.
C25_CompoundSources == C25_Sources \ {ProgVarHead, ProgVarGoal}

C25_OnCompounds ==
    (Done /\ src \in C25_CompoundSources) =>
        LET ref == main_run(FALSE, heap)
        IN  /\ out = ref.o
            /\ g_solution_count = ref.n

\* C26: a goal that is not callable.  The first goal dereferences to a
\* number or to an unbound variable, or has the name of a built-in with
\* another arity.
Malformed(h, g0) ==
    LET g == deref(h, g0)
    IN  \/ h[g].k = TM_NUM
        \/ h[g].k = TM_VAR
        \/ /\ h[g].k = TM_STRUC
           /\ h[g].name \in {e[1] : e \in BuiltinTable}
           /\ <<h[g].name, h[g].arity>> \notin BuiltinTable

AtMalformed ==
    Running /\ Top.pc = "entry" /\ Len(Top.goals) > 0 /\ Malformed(heap, Top.goals[1])

\* C26 as claimed: on such a goal the engine terminates the whole process:
\* the search does not go on, and main does not return as after a search.
C26_MalformedIsFatal == [][AtMalformed => pc' \notin {"solve", "done"}]_vars

\* C26 amended: such a goal is not fatal.  builtin_call answers -1 without
\* any effect and the activation enters the clause loop as for a user
\* predicate; when no clause is attempted or unifies the activation returns,
\* an ordinary failure, and the search backtracks to the alternatives left;
\* main ends as after any search.
C26_Step ==
    AtMalformed =>
        /\ pc' = "solve"
        /\ Len(stack') = Len(stack)
        /\ stack'[Len(stack')].pc = "loop"
        /\ stack'[Len(stack')].i = 0
        /\ heap' = heap /\ g_trail' = g_trail /\ out' = out
        /\ g_solution_count' = g_solution_count

C26_State ==
    /\ src = ProgMalformed =>
          /\ IsPrefix(out, <<"X = ", "d", "\n">>)
          /\ Done => g_solution_count = 1 /\ out = <<"X = ", "d", "\n">>
          /\ \A d \in 1..Len(stack) :
                (stack[d].pc = "loop" /\ Malformed(heap, stack[d].goals[1]))
                    => heap = stack[d].e_heap /\ g_trail = stack[d].e_trail
    /\ (src = ProgVarGoal /\ Done) => out = <<"false.\n">>

C26_MalformedIsFailure == [][C26_Step /\ C26_State']_vars

\* The search has passed the three goals that are not callable and reported
\* the solution of the fourth alternative; main has returned.
C26_Witness ==
    /\ src = ProgMalformed
    /\ Done
    /\ g_solution_count = 1
    /\ out = <<"X = ", "d", "\n">>

\* C27 as claimed: trail_unwind called with a checkpoint greater than the
\* trail's length is fatal: the call does not return to its caller.
C27_UnwindAboveIsFatal ==
    (last.op = "unwind_any" /\ last.m > Len(last.tr0)) => pc # "unit"

\* C27 amended: trail_unwind called with a checkpoint greater than the
\* trail's length returns normally and changes nothing: the loop test
\* g_trail.n > mark is false at once, the trail and every binding are as
\* they were.
C27_UnwindAboveIsNoOp ==
    (last.op = "unwind_any" /\ last.m > Len(last.tr0)) =>
        /\ pc = "unit"
        /\ g_trail = last.tr0
        /\ heap = last.h0
        /\ BoundVars(heap) = Range(g_trail)

\* trail_unwind(m) has returned for m above the length of a trail that held
\* three bindings.
C27_Witness ==
    /\ last.op = "unwind_any"
    /\ Len(last.tr0) = 3
    /\ last.m = 4
    /\ Len(g_trail) = 3

\* C28: trail_unwind is idempotent.  For a checkpoint m not above the
\* trail's length, a second trail_unwind(m) right after the first changes
\* neither the trail nor a binding; and trail_unwind(m) followed by
\* trail_unwind(m2) with m2 <= m leaves the trail and the bindings that
\* trail_unwind(m2) alone gives from the state before the two calls.
C28_UnwindIdempotent ==
    (last.op = "unwind_any" /\ Len(marks) >= 2) =>
        LET p == marks[Len(marks) - 1]
            q == marks[Len(marks)]
            alone == UnwoundTo(p.h, p.tr, q.m)
        IN  (p.c = q.c /\ p.m <= Len(p.tr) /\ q.m <= p.m) =>
                /\ Len(q.tr) = p.m
                /\ q.m = p.m => heap = q.h /\ g_trail = q.tr
                /\ g_trail = alone.tr
                /\ heap = alone.h
                /\ Len(g_trail) = q.m

\* After three bindings, trail_unwind(2) and then trail_unwind(1).
C28_Witness ==
    /\ last.op = "unwind_any"
    /\ Len(marks) = 2
    /\ marks[1].c = marks[2].c
    /\ Len(marks[1].tr) = 3
    /\ marks[1].m = 2
    /\ marks[2].m = 1
    /\ Len(g_trail) = 1

\* C29: the engine keeps the trail discipline.  Every trail_unwind(mark) of
\* solve is called with mark <= the trail's length: the mark of each
\* activation inside a clause's recursive call is at most the trail's
\* length, and dif and a failed head unification unwind to the mark taken
\* just before their own unify.  Marks are undone last taken first: the
\* marks of the nested activations never decrease from the outer to the
\* inner, only the innermost activation unwinds, and it unwinds to its own
\* mark.
C29_State ==
    /\ \A d \in InClause : stack[d].mark <= Len(g_trail)
    /\ \A d, e \in InClause : d < e => stack[d].mark <= stack[e].mark
    /\ Len(stack) = 0 => g_trail = <<>>

C29_Step ==
    /\ (Running /\ Top.pc = "callC") =>
          /\ Top.mark <= Len(g_trail)
          /\ g_trail' = SubSeq(g_trail, 1, Top.mark)
          /\ \A d \in InClause : stack[d].mark <= Top.mark
    /\ (Running /\ Top.pc = "entry" /\ Len(Top.goals) > 0
            /\ is_atom(heap, Top.goals[1], "dif", 2)) =>
          LET G == deref(heap, Top.goals[1])
              u == unify(heap, g_trail, heap[G].args[1], heap[G].args[2])
          IN  /\ trail_mark(g_trail) <= Len(u.tr)
              /\ g_trail' = g_trail
    /\ (AtClause /\ Attempted /\ Len(stack') = Len(stack)) => g_trail' = g_trail
    /\ Len(g_trail') < Len(g_trail) => (Running /\ Top.pc = "callC")

C29_TrailDiscipline == [][C29_Step /\ C29_State']_vars

\* Three nested clause activations with three different marks, the trail
\* longer than the last of them.
C29_Witness ==
    /\ Running
    /\ \E d, e, f \in InClause :
          /\ stack[d].mark < stack[e].mark
          /\ stack[e].mark < stack[f].mark
          /\ stack[f].mark < Len(g_trail)

\* C30: when the renamed head of a clause unifies with the first goal, the
\* goal list passed to the recursive solve is the renamed body goals, in
\* clause order, followed by the caller's remaining goals goals[1..] in
\* their order, body_n + gn - 1 goals in all; for a fact it is the caller's
\* goals without the first.  The recursive call is made exactly when the
\* head unifies.
C30_Step ==
    (AtClause /\ Attempted) =>
        LET cl == g_kb[Top.i + 1]
            bn == Len(cl.body)
            gn == Len(Top.goals)
            u == try_head(heap, g_trail, Top.goals[1], cl)
        IN  /\ u.ok <=> Len(stack') = Len(stack) + 1
            /\ ~u.ok => Len(stack') = Len(stack)
            /\ u.ok =>
                  LET caller == stack'[Len(stack)]
                      NG == stack'[Len(stack')].goals
                  IN  /\ caller.pc = "callC"
                      /\ stack'[Len(stack')].pc = "entry"
                      /\ Diffs(heap', {<<Top.goals[1], caller.Hcopy>>}, {}) = {}
                      /\ Len(NG) = bn + gn - 1
                      /\ \A j \in 1..bn :
                            /\ NG[j] = caller.B[j]
                            /\ Renamed(heap', caller.M, cl.body[j], NG[j])
                      /\ \A j \in 1..(gn - 1) : NG[bn + j] = Top.goals[j + 1]
                      /\ bn = 0 => NG = SubSeq(Top.goals, 2, gn)

C30_BodyThenRest == [][C30_Step]_vars

\* The recursive call of a clause with two body goals, made with three
\* goals of the caller remaining.
C30_Witness ==
    /\ Running
    /\ Len(stack) >= 2
    /\ Top.pc = "entry"
    /\ stack[Len(stack) - 1].pc = "callC"
    /\ Len(stack[Len(stack) - 1].B) = 2
    /\ Len(stack[Len(stack) - 1].goals) = 4
    /\ Len(Top.goals) = 5

\* A bound variable: the only kind of node deref moves on from.
IsBoundVar(h, t) == h[t].k = TM_VAR /\ h[t].ref # NULL

RECURSIVE Follow(_, _, _)
\* The node n binding links away from t.
Follow(h, t, n) ==
    IF n = 0 \/ ~IsBoundVar(h, t) THEN t ELSE Follow(h, h[t].ref, n - 1)

\* C31: deref(t) returns an unbound variable, a number or a compound, never
\* a bound variable; the node returned is reached from t by following
\* binding links only, every node passed on the way being a bound variable;
\* deref changes no binding and no trail entry; for a term that is not a
\* bound variable it returns the term itself.
C31_DerefEndOfChain ==
    last.op = "deref" =>
        LET t == last.a
            d == last.b
        IN  /\ ~IsBoundVar(heap, d)
            /\ heap[d].k \in {TM_VAR, TM_NUM, TM_STRUC}
            /\ heap[d].k = TM_VAR => heap[d].ref = NULL
            /\ \E n \in 0..Len(heap) :
                  /\ d = Follow(heap, t, n)
                  /\ \A j \in 0..(n - 1) : IsBoundVar(heap, Follow(heap, t, j))
            /\ heap = last.h0
            /\ g_trail = last.tr0
            /\ ~IsBoundVar(heap, t) => d = t

\* deref has been called on a variable bound to a variable that is bound to
\* a compound, and has returned the compound.
C31_Witness ==
    /\ last.op = "deref"
    /\ IsBoundVar(heap, last.a)
    /\ IsBoundVar(heap, heap[last.a].ref)
    /\ heap[last.b].k = TM_STRUC
    /\ last.b = heap[heap[last.a].ref].ref
    /\ Len(g_trail) = 3

\* C32: unify makes no occurs check.  A call of unify whose one side
\* dereferences to an unbound variable and whose other side dereferences to
\* another node returns true, binds the variable to that node and pushes
\* exactly that variable on the trail, whether or not the variable occurs in
\* the node: unify(X, f(X)) and unify(f(X), X) bind X to the compound f(X)
\* whose argument is X itself.
C32_NoOccursCheck ==
    last.op = "unify" =>
        LET a == deref(last.h0, last.a)
            b == deref(last.h0, last.b)
            v == IF last.h0[a].k = TM_VAR THEN a ELSE b
            t == IF last.h0[a].k = TM_VAR THEN b ELSE a
        IN  (a # b /\ last.h0[v].k = TM_VAR) =>
                /\ last.ok
                /\ heap = [last.h0 EXCEPT ![v].ref = t]
                /\ g_trail = Append(last.tr0, v)
                /\ (heap[t].k = TM_STRUC /\ v \in Reach(last.h0, {t})) =>
                      /\ v \in Reach(heap, {heap[v].ref})
                      /\ ~Acyclic(heap)

\* unify(X, f(X)) has returned true: X is bound to the compound whose
\* argument is X, with one entry on the trail.
C32_Witness ==
    /\ last.op = "unify"
    /\ last.a = last_query[8]
    /\ last.b = last_query[7]
    /\ last.h0[last.a].k = TM_VAR
    /\ last.h0[last.a].ref = NULL
    /\ last.ok
    /\ heap[last.a].ref = last.b
    /\ heap[last.b].k = TM_STRUC
    /\ heap[last.b].name = "f"
    /\ heap[last.b].args = <<last.a>>
    /\ g_trail = <<last.a>>

\* The names of the built-in table.
BuiltinNames == {e[1] : e \in BuiltinTable}

\* A variable bound to the goal, as a clause body G gets it from call(goal).
BoundTo(h, goal) ==
    LET r == Alloc(h, mk_var_node("G"))
    IN  [h |-> [r.h EXCEPT ![r.t].ref = goal], t |-> r.t]

\* C33: built-in dispatch uses the dereferenced goal and matches on name
\* and arity.  An activation whose first goal dereferences to a compound
\* whose name and arity are in the built-in table, the goal itself being
\* that compound or a variable bound to it, runs the built-in and never
\* enters the clause loop; a compound with the name of a built-in and
\* another arity (true(1), write(a, b)) is no built-in: the activation
\* enters the clause loop with nothing changed, and the goal succeeds
\* through a fact of the clause database.  true, fail, nl and write bind
\* nothing and leave the trail as it is.  builtin_call on a variable bound to
\* an =/2 or dif/2 goal does what it does on the goal itself.
C33_Step ==
    (Running /\ Top.pc = "entry" /\ Len(Top.goals) > 0) =>
        LET g == deref(heap, Top.goals[1])
            named == heap[g].k = TM_STRUC /\ heap[g].name \in BuiltinNames
            listed == named /\ <<heap[g].name, heap[g].arity>> \in BuiltinTable
        IN  /\ listed =>
                /\ Len(heap') = Len(heap)
                /\ \/ stack' = Pop(stack)
                   \/ /\ Len(stack') = Len(stack) + 1
                      /\ stack'[Len(stack)].pc = "callB"
                      /\ stack'[Len(stack')].goals = RestGoals(Top.goals)
                /\ heap[g].name \in {"true", "fail", "nl", "write"} =>
                      heap' = heap /\ g_trail' = g_trail
                /\ heap[g].name \in {"true", "nl", "write"} =>
                      Len(stack') = Len(stack) + 1
                /\ heap[g].name = "fail" => stack' = Pop(stack)
            /\ ~listed =>
                /\ Len(stack') = Len(stack)
                /\ stack'[Len(stack)].pc = "loop"
                /\ stack'[Len(stack)].i = 0
                /\ UNCHANGED <<heap, g_trail, out, g_solution_count>>

\* builtin_call on a variable bound to a goal of the harness, and on the goal.
ViaVariable ==
    \A k \in 1..Len(UnitGoals.goals) :
        LET goal == UnitGoals.goals[k]
            v == BoundTo(UnitGoals.h, goal)
            direct == builtin_call(v.h, <<v.t>>, <<>>, goal)
            via == builtin_call(v.h, <<v.t>>, <<>>, v.t)
        IN  via = direct /\ via.r \in {0, 1}

C33_State ==
    /\ ViaVariable
    /\ (Done /\ src = ProgDispatch) =>
          g_solution_count = 1 /\ out = <<"x", "\n", "true\n">>

C33_DispatchOnDerefNameArity == [][C33_Step /\ C33_State']_vars

\* The first goal is a variable bound to write(x); the goals true(1) and
\* write(a, b) are still to come and the source has a fact for each.
C33_Witness ==
    /\ Running
    /\ Top.pc = "entry"
    /\ Len(Top.goals) > 0
    /\ IsBoundVar(heap, Top.goals[1])
    /\ is_atom(heap, Top.goals[1], "write", 1)
    /\ \E j \in 2..Len(Top.goals) :
          /\ is_atom(heap, Top.goals[j], "write", 2)
          /\ HasUserClause(heap, Top.goals[j])
    /\ \E j \in 2..Len(Top.goals) :
          /\ is_atom(heap, Top.goals[j], "true", 1)
          /\ HasUserClause(heap, Top.goals[j])

\* The globals solve reads and writes, as they are now.
Cur == [h |-> heap, tr |-> g_trail, o |-> out, n |-> g_solution_count]

\* No =/2 goal stands at the front of the goal list, where only built-in
\* goals come before it.
NoLeadingEq(h, goals) ==
    \A j \in 1..Len(goals) :
        (\A i \in 1..(j - 1) : IsBuiltinGoal(h, goals[i])) =>
            ~is_atom(h, goals[j], "=", 2)

\* C34 as claimed: every call of solve, those whose first goal is a
\* successful =/2 included, returns with the trail and every variable as
\* they were at the call; when main is done the trail is empty and every
\* query variable is unbound.
C34_SolveRestoresState ==
    /\ (Running /\ Top.pc = "entry") =>
          LET r == solve_rec(TRUE, Cur, Top.goals)
          IN  r.tr = g_trail /\ SameBindings(heap, r.h)
    /\ Done =>
          /\ g_trail = <<>>
          /\ \A i \in 1..Len(qvars) : heap[qvars[i]].ref = NULL

\* C34 amended: a call of solve returns with the trail it was entered with,
\* extended by the bindings of the successful =/2 goals at the front of its
\* goal list: solve never unwinds what a successful = has bound, the
\* enclosing clause iteration does (trail_unwind(mark)).  A call with no
\* =/2 goal at the front of its list (only built-in goals before it) returns
\* with the trail and every variable as at the call; so does every call on
\* a source without =/2, and then the trail is empty and every query
\* variable unbound when main is done.  Every iteration of the clause loop
\* ends with the trail at its mark.
C34_SolveKeepsEqBindings ==
    /\ (Running /\ Top.pc = "entry") =>
          LET r == solve_rec(TRUE, Cur, Top.goals)
          IN  /\ IsPrefix(g_trail, r.tr)
              /\ Len(heap) <= Len(r.h)
              /\ \A v \in 1..Len(heap) :
                    \/ r.h[v] = heap[v]
                    \/ /\ heap[v].k = TM_VAR
                       /\ heap[v].ref = NULL
                       /\ v \in Range(SubSeq(r.tr, Len(g_trail) + 1, Len(r.tr)))
              /\ NoLeadingEq(heap, Top.goals) =>
                    r.tr = g_trail /\ SameBindings(heap, r.h)
    /\ \A d \in 1..Len(stack) :
          stack[d].pc = "loop" =>
              g_trail = stack[d].e_trail /\ SameBindings(stack[d].e_heap, heap)
    /\ (Done /\ NoLeadingEq(heap, last_query)) =>
          /\ g_trail = <<>>
          /\ \A i \in 1..Len(qvars) : heap[qvars[i]].ref = NULL
    /\ (Done /\ src = EqTop) => Len(g_trail) = 1 /\ out = <<"X = ", "a", "\n">>
    /\ (Done /\ src = EqBody) =>
          g_trail = <<>> /\ out = <<"Z = ", "a", "\n", "Z = ", "b", "\n">>

\* Inside the recursive call of a clause, the next goal is an =/2 goal that
\* succeeds: the call of solve on it returns with a longer trail.
C34_Witness ==
    /\ Running
    /\ Top.pc = "entry"
    /\ Len(Top.goals) > 0
    /\ is_atom(heap, Top.goals[1], "=", 2)
    /\ InClause # {}
    /\ Len(solve_rec(TRUE, Cur, Top.goals).tr) > Len(g_trail)

\* C35: chains of variable-to-variable bindings are acyclic.  In every
\* reachable state no variable is bound to itself, directly or through a
\* chain of bound variables: following the binding links from any node
\* comes, in fewer steps than there are nodes, to a node that is not a bound
\* variable, without passing a node twice; so deref terminates on every
\* node, and does so also where the term graph has a cycle, which then
\* passes through a compound.
C35_VarChainsAcyclic ==
    /\ \A v \in 1..Len(heap) :
          /\ \E n \in 0..(Len(heap) - 1) : ~IsBoundVar(heap, Follow(heap, v, n))
          /\ \A n \in 1..Len(heap) :
                (\A j \in 0..(n - 1) : IsBoundVar(heap, Follow(heap, v, j))) =>
                    /\ Follow(heap, v, n) # v
                    /\ \A j \in 0..(n - 1) : Follow(heap, v, j) # Follow(heap, v, n)
          /\ ~IsBoundVar(heap, deref(heap, v))
    /\ \A n \in 1..Len(heap) :
          n \in Reach(heap, Succs(heap, n)) =>
              \E c \in Reach(heap, Succs(heap, n)) :
                  heap[c].k = TM_STRUC /\ n \in Reach(heap, Succs(heap, c))
    /\ last.op = "deref" => ~IsBoundVar(heap, last.b)

\* The term graph has a cycle, X bound to f(X), another variable is bound
\* through a chain of two links, and deref has returned on the variable
\* that is bound into the cycle.
C35_Witness ==
    /\ ~Acyclic(heap)
    /\ last.op = "deref"
    /\ IsBoundVar(heap, last.a)
    /\ last.a \in Reach(heap, {heap[last.a].ref})
    /\ heap[last.b].k = TM_STRUC
    /\ \E v \in 1..Len(heap) :
          IsBoundVar(heap, v) /\ IsBoundVar(heap, heap[v].ref)

\* C36: solve never writes to the goal array it is given.  No step changes
\* the goal list of an activation that is on the stack before and after it,
\* nor last_query once main has called solve; the callee of a built-in
\* works on goals[1..] of its caller, and the callee of a clause on the
\* renamed body followed by goals[1..] of its caller, the same goals[1..]
\* for every clause alternative of the frame.
C36_Step ==
    /\ \A d \in 1..Len(stack) :
          d <= Len(stack') => stack'[d].goals = stack[d].goals
    /\ pc = "solve" => last_query' = last_query

C36_State ==
    /\ \A d \in 1..(Len(stack) - 1) :
          /\ stack[d].pc \in {"callB", "callC"}
          /\ stack[d].pc = "callB" =>
                stack[d + 1].goals = RestGoals(stack[d].goals)
          /\ stack[d].pc = "callC" =>
                stack[d + 1].goals = stack[d].B \o RestGoals(stack[d].goals)
    /\ Len(stack) > 0 => stack[1].goals = last_query

C36_GoalsNeverWritten == [][C36_Step /\ C36_State']_vars

\* Back at the loop head for a third alternative, after a solution was
\* reported through an earlier one, with goals remaining after the first,
\* the first being a variable.
C36_Witness ==
    /\ Running
    /\ Top.pc = "loop"
    /\ Top.i >= 2
    /\ Len(Top.goals) >= 2
    /\ heap[Top.goals[1]].k = TM_VAR
    /\ g_solution_count > Top.e_count

\* Every clause of the source is a fact.
FactsOnly == \A k \in 1..Len(src) : src[k].q \/ src[k].body = <<>>

\* How far the activation f has come: at its entry, inside the call after a
\* built-in, at the loop head with index i, inside the call of clause i.
FrameCode(f) ==
    IF f.pc = "entry" THEN 0
    ELSE IF f.pc = "callB" THEN 1
    ELSE IF f.pc = "loop" THEN 2 * f.i + 2
    ELSE 2 * f.i + 3

\* The place d of the rank of a state: main's position at d = 0, then the
\* code of the d-th activation, an activation that has returned (or is not
\* yet called) counting above every code.
RankCode(p, ps, st, kb, d) ==
    IF d = 0
    THEN (IF p = "parse" THEN ps
          ELSE IF p = "solve" THEN Len(src) + 2 ELSE Len(src) + 3)
    ELSE IF d > Len(st) THEN 2 * Len(kb) + 4
    ELSE FrameCode(st[d])

\* The rank of the next state is above the rank of this one in the
\* lexicographic order.
RankGrows ==
    \E d \in 0..(Len(stack) + 1) :
        /\ RankCode(pc', pos', stack', g_kb', d) > RankCode(pc, pos, stack, g_kb, d)
        /\ \A e \in 0..(d - 1) :
              RankCode(pc', pos', stack', g_kb', e) = RankCode(pc, pos, stack, g_kb, e)

\* The state has a next step.  main at its parse loop reads an item or calls
\* solve; an activation at its entry reports a solution or calls
\* builtin_call, whose three results are the three ways on; at the loop head
\* it tests i < g_kb.n and goes on either way; inside a call it is returned
\* to; main, returned to, finishes.
CanStep ==
    \/ pc = "parse" /\ pos <= Len(src) + 1
    \/ pc = "solve" /\ Len(stack) = 0
    \/ /\ Running
       /\ \A d \in 1..(Len(stack) - 1) : stack[d].pc \in {"callB", "callC"}
       /\ \/ Top.pc \in {"entry", "callB", "callC"}
          \/ Top.pc = "loop" /\ Top.i <= Len(g_kb)

\* C37: with a knowledge base of facts only, solve terminates for every
\* query.  Every step of main and solve moves the state up in a bounded
\* lexicographic rank (main's position, then the progress of each
\* activation from the outermost in), so no run goes on for ever, and every
\* state but the final one has a step.  The rank is bounded because the
\* goal list of a callee is one shorter than its caller's: the stack is
\* never deeper than the query is long, plus one.  Each activation attempts
\* each clause at most once for its first goal: its index i never goes
\* back, and an iteration at index i ends with i + 1, at once or when the
\* recursive call of clause i has returned.  The query runs until its
\* search tree is exhausted: an activation leaves the clause loop only at
\* i = g_kb.n, a solution report returns to the caller alone, and main is
\* done only when the first activation has returned.
C37_Step ==
    FactsOnly =>
        /\ RankGrows
        /\ \A d \in 1..Len(stack) :
              d <= Len(stack') => stack'[d].i >= stack[d].i
        /\ (Running /\ Top.pc = "loop" /\ Top.i < Len(g_kb)) =>
              \/ /\ Len(stack') = Len(stack)
                 /\ stack'[Len(stack)].pc = "loop"
                 /\ stack'[Len(stack)].i = Top.i + 1
              \/ /\ Len(stack') = Len(stack) + 1
                 /\ stack'[Len(stack)].pc = "callC"
                 /\ stack'[Len(stack)].i = Top.i
        /\ (Running /\ Top.pc = "callC") =>
              /\ Len(stack') = Len(stack)
              /\ stack'[Len(stack)].pc = "loop"
              /\ stack'[Len(stack)].i = Top.i + 1
        /\ (Running /\ Top.pc = "loop" /\ Len(stack') < Len(stack)) =>
              Top.i = Len(g_kb)
        /\ AtEmptyGoals => pc' = "solve" /\ stack' = Pop(stack)
        /\ pc' = "done" => (pc = "done" \/ Len(stack) = 0)

C37_State ==
    FactsOnly =>
        /\ ~Done => CanStep
        /\ \A d \in 1..(Len(stack) - 1) :
              Len(stack[d + 1].goals) = Len(stack[d].goals) - 1
        /\ Len(stack) <= Len(last_query) + 1
        /\ \A d \in 1..Len(stack) : stack[d].i <= Len(g_kb)
        /\ (Done /\ src = ProgTwoQueries) => g_solution_count = 2
        /\ (Done /\ src = ProgWriteBacktrack) =>
              out = <<"a", "\n", "b", "\n", "false.\n">>

C37_FactsOnlyTerminates == [][C37_Step /\ C37_State']_vars

\* main is done with a facts-only source whose query had two solutions.
C37_Witness ==
    /\ FactsOnly
    /\ Done
    /\ Len(g_kb) = 2
    /\ g_solution_count = 2

IsClauseItem(item) == ~item.q
IsQueryItem(item) == item.q

RECURSIVE AstMatches(_, _, _)
\* The term t is the term parse_term builds for the syntax tree ast.
AstMatches(h, t, ast) ==
    IF ast.t = "var" THEN h[t].k = TM_VAR /\ h[t].name = ast.name
    ELSE IF ast.t = "num" THEN h[t].k = TM_NUM /\ h[t].num = ast.num
    ELSE /\ h[t].k = TM_STRUC
         /\ h[t].name = ast.name
         /\ h[t].arity = Len(ast.args)
         /\ \A i \in 1..Len(ast.args) : AstMatches(h, h[t].args[i], ast.args[i])

\* The terms ts are the terms of the syntax trees asts, one for one.
AllMatch(h, ts, asts) ==
    Len(ts) = Len(asts) /\ \A i \in 1..Len(ts) : AstMatches(h, ts[i], asts[i])

\* C38: the driver loads the whole source before it solves anything.  While
\* main parses, no activation of solve exists, nothing is printed, counted
\* or bound.  Once solve is called the whole source has been read: the
\* knowledge base holds every clause of the source in textual order, those
\* after the last query included, and the goals solved are those of the
\* last query of the source, no earlier query being solved at all; a
\* source without a query is solved with the one goal true, which reports
\* exactly one solution, without bindings.
C38_LoadThenSolveLast ==
    LET clauses == SelectSeq(src, IsClauseItem)
        queries == SelectSeq(src, IsQueryItem)
    IN  /\ pc = "parse" =>
              /\ stack = <<>>
              /\ out = <<>>
              /\ g_solution_count = 0
              /\ g_trail = <<>>
              /\ qvars = <<>>
        /\ pc \in {"solve", "done"} =>
              /\ pos = Len(src) + 1
              /\ Len(g_kb) = Len(clauses)
              /\ \A c \in 1..Len(g_kb) :
                    /\ AstMatches(heap, g_kb[c].head, clauses[c].head)
                    /\ AllMatch(heap, g_kb[c].body, clauses[c].body)
              /\ Len(queries) > 0 =>
                    AllMatch(heap, last_query, queries[Len(queries)].body)
              /\ Len(queries) = 0 =>
                    /\ Len(last_query) = 1
                    /\ heap[last_query[1]] = mk_struct_node("true", 0)
                    /\ qvars = <<>>
              /\ \A d \in 1..Len(stack) : d = 1 => stack[d].goals = last_query
        /\ (Done /\ Len(queries) = 0) =>
              g_solution_count = 1 /\ out = <<"true\n">>
        /\ (Done /\ src = ProgTwoQueries) =>
              /\ g_solution_count = 2
              /\ out = <<"a", "\n", "Y = ", "a", "\n", "2", "\n", "Y = ", "2", "\n">>

\* The second of two queries is being solved with the clause that stands
\* after it in the source: its solution through that clause is reported.
C38_Witness ==
    /\ src = ProgTwoQueries
    /\ pc = "solve"
    /\ Len(g_kb) = 2
    /\ heap[g_kb[2].head].args # <<>>
    /\ heap[heap[g_kb[2].head].args[1]].num = 2
    /\ out = <<"a", "\n", "Y = ", "a", "\n", "2", "\n", "Y = ", "2", "\n">>

RECURSIVE ParsedVars(_, _)
\* The variable nodes the parser placed in the term t: those reached through
\* argument vectors only, never through a binding.
ParsedVars(h, t) ==
    IF h[t].k = TM_VAR THEN {t}
    ELSE IF h[t].k = TM_STRUC
         THEN UNION {ParsedVars(h, h[t].args[i]) : i \in 1..h[t].arity}
         ELSE {}

\* The variable nodes of clause c of the knowledge base, and of the query.
ParsedClauseVars(c) ==
    ParsedVars(heap, g_kb[c].head)
        \cup UNION {ParsedVars(heap, g_kb[c].body[j]) : j \in 1..Len(g_kb[c].body)}
ParsedQueryVars ==
    UNION {ParsedVars(heap, last_query[j]) : j \in 1..Len(last_query)}

\* Within the set S of nodes a name stands for one node.
OneNodePerName(S) ==
    \A v, w \in S : heap[v].name = heap[w].name => v = w

\* C39: variable names are resolved per clause and per query.  Inside one
\* clause, or inside the query, two occurrences of a name are one variable
\* node; two different clauses, and a clause and the query, have no variable
\* node in common, whatever the names; the anonymous name '_' is resolved
\* the same way, so the two arguments of the head of p(_, _) are one node,
\* and that fact matches p(U, W) by binding U and W together but does not
\* match p(a, b).
C39_NamesPerClause ==
    /\ \A c \in 1..Len(g_kb) : OneNodePerName(ParsedClauseVars(c))
    /\ OneNodePerName(ParsedQueryVars)
    /\ \A c, d \in 1..Len(g_kb) : c # d => ParsedClauseVars(c) \cap ParsedClauseVars(d) = {}
    /\ \A c \in 1..Len(g_kb) : ParsedClauseVars(c) \cap ParsedQueryVars = {}
    /\ (src \in {ProgAnon, ProgAnonFail} /\ Len(g_kb) >= 1) =>
          /\ heap[g_kb[1].head].args[1] = heap[g_kb[1].head].args[2]
          /\ heap[heap[g_kb[1].head].args[1]].name = "_"
    /\ (src = ProgAnon /\ Done) =>
          /\ g_solution_count = 1
          /\ out = <<"U = ", "a", ", ", "W = ", "a", "\n">>
    /\ (src = ProgAnonFail /\ Done) =>
          /\ g_solution_count = 0
          /\ out = <<"false.\n">>

\* Both clauses of p(_, _). q(_). are loaded, each with its own node for
\* '_', and the search has ended without a solution for ?- q(b), p(a, b).
C39_Witness ==
    /\ src = ProgAnonFail
    /\ Done
    /\ Len(g_kb) = 2
    /\ ParsedClauseVars(1) # {}
    /\ ParsedClauseVars(2) # {}
    /\ \A v \in ParsedClauseVars(1) \cup ParsedClauseVars(2) : heap[v].name = "_"
    /\ ParsedClauseVars(1) \cap ParsedClauseVars(2) = {}

====
